---------------------------- MODULE Spec2Model ----------------------------
(***************************************************************************)
(* Model of email-analyzer: the Received-header parser (parser.py), the    *)
(* geolocation helper (geolocate.py) and report assembly (json_report.py). *)
(*                                                                         *)
(* Header text is a sequence of one-character strings.  The regular        *)
(* expressions of parser.py are kept as syntax trees and matched by a      *)
(* backtracking matcher that follows Python's re priorities (alternatives  *)
(* left to right, greedy before lazy), so that a search returns the match  *)
(* re.search returns.                                                      *)
(***************************************************************************)
EXTENDS Integers, Sequences, FiniteSets, TLC

VARIABLES
    header,     \* parser harness: the raw Received header under parse
    hop,        \* parser harness: the Hop built from it, None before the call
    message,    \* report assembly: the loaded message, a sequence of [name, value]
    pc,         \* report assembly: position in generate_json_report
    hops,       \* report assembly: the list returned by parse_received_hops
    cursor,     \* report assembly: number of hops the geolocation loop has passed
    lookups,    \* geolocate_ip calls issued so far, the address of each, in order
    responses,  \* what the network did on each of those calls, in order
    outcomes,   \* what each of those calls did: raised, or the value returned
    report,     \* the report returned by generate_json_report, None before
    today,      \* the day of datetime.now(), which dateutil reads for its default
    auth,       \* the dict returned by parse_authentication_results, None before
    files,      \* what the run has written: output_dir, graph, map, json, html
    eml_path,   \* the path generate_json_report is called with
    args,       \* command line: the eml argument and the --fetch argument
    env,        \* command line: how fetching, os.makedirs and the HTML report go
    cli,        \* command line: position in cli_entrypoint
    status,     \* command line: the exit status, None while running
    errors,     \* command line: the errors logged so far
    calls,      \* parser harness: the calls of _parse_received_single made one
                \* after the other, each with its arguments and the Hop returned
    fetch,      \* fetch_eml.py: a run of fetch_eml_from_url or fetch_eml_from_imap
    second,     \* report.py: a run of build_report on the same message
    json_out    \* the path generate_json_report wrote the JSON report to, None before

vars == <<header, hop, message, pc, hops, cursor, lookups, responses, outcomes, report,
          today, auth, files, eml_path, args, env, cli, status, errors, calls, fetch,
          second, json_out>>

\* Optional values: None is the empty sequence, a present value x is <<x>>
None == <<>>
Some(x) == <<x>>
IsSome(o) == o # <<>>
The(o) == o[1]

(***************************************************************************)
(* Characters                                                              *)
(***************************************************************************)
Digit == {"0", "1", "2", "3", "4", "5", "6", "7", "8", "9"}
LowerCase == {"a", "b", "c", "d", "e", "f", "g", "h", "i", "j", "k", "l", "m",
              "n", "o", "p", "q", "r", "s", "t", "u", "v", "w", "x", "y", "z"}
UpperCase == {"A", "B", "C", "D", "E", "F", "G", "H", "I", "J", "K", "L", "M",
              "N", "O", "P", "Q", "R", "S", "T", "U", "V", "W", "X", "Y", "Z"}
\* \s of re and the separators of str.split()
Whitespace == {" ", "\t", "\n", "\r", "\f"}
\* \w of re
WordChar == Digit \cup LowerCase \cup UpperCase \cup {"_"}

LowerOf == [c \in UpperCase |->
    CASE c = "A" -> "a" [] c = "B" -> "b" [] c = "C" -> "c" [] c = "D" -> "d"
      [] c = "E" -> "e" [] c = "F" -> "f" [] c = "G" -> "g" [] c = "H" -> "h"
      [] c = "I" -> "i" [] c = "J" -> "j" [] c = "K" -> "k" [] c = "L" -> "l"
      [] c = "M" -> "m" [] c = "N" -> "n" [] c = "O" -> "o" [] c = "P" -> "p"
      [] c = "Q" -> "q" [] c = "R" -> "r" [] c = "S" -> "s" [] c = "T" -> "t"
      [] c = "U" -> "u" [] c = "V" -> "v" [] c = "W" -> "w" [] c = "X" -> "x"
      [] c = "Y" -> "y" [] c = "Z" -> "z"]

DigitChar == [d \in 0..9 |->
    CASE d = 0 -> "0" [] d = 1 -> "1" [] d = 2 -> "2" [] d = 3 -> "3" [] d = 4 -> "4"
      [] d = 5 -> "5" [] d = 6 -> "6" [] d = 7 -> "7" [] d = 8 -> "8" [] d = 9 -> "9"]

\* str.lower() on one character
LowerChar(c) == IF c \in UpperCase THEN LowerOf[c] ELSE c

\* str.lower()
Lower(s) == [k \in 1..Len(s) |-> LowerChar(s[k])]

\* s[a-1:b-1] of Python: the characters at 1-based positions a .. b-1
Slice(s, a, b) == IF b <= a THEN <<>> ELSE SubSeq(s, a, b - 1)

\* `needle in haystack` on str
Contains(haystack, needle) ==
    \E k \in 1..(Len(haystack) - Len(needle) + 1) :
        SubSeq(haystack, k, k + Len(needle) - 1) = needle

(***************************************************************************)
(* Regular expressions: syntax                                             *)
(***************************************************************************)
Chr(c) == [t |-> "in", cs |-> {c}]                 \* a literal character
In(cs) == [t |-> "in", cs |-> cs]                  \* [...] and \s
NotIn(cs) == [t |-> "notin", cs |-> cs]            \* \S
Dot == [t |-> "notin", cs |-> {"\n"}]              \* . without DOTALL
Cat(rs) == [t |-> "cat", rs |-> rs]                \* r1 r2 ...
Alt(rs) == [t |-> "alt", rs |-> rs]                \* r1 | r2 | ...
Rep(r, lo, hi) == [t |-> "rep", r |-> r, lo |-> lo, hi |-> hi, lazy |-> FALSE]
Opt(r) == Rep(r, 0, 1)                             \* r{0,1}
Plus(r) == Rep(r, 1, -1)                           \* r+, r{1,}
Star(r) == Rep(r, 0, -1)                           \* r*
LazyPlus(r) == [t |-> "rep", r |-> r, lo |-> 1, hi |-> -1, lazy |-> TRUE]  \* r+?
WordBoundary == [t |-> "wb"]                       \* \b
NotBehind(cs) == [t |-> "nlb", cs |-> cs]          \* (?<![...])
NotAhead(cs) == [t |-> "nla", cs |-> cs]           \* (?![...])
EndOfString == [t |-> "eos"]                       \* $
Group(r) == [t |-> "grp", r |-> r]                 \* (...) and (?P<name>...)
Lit(w) == Cat([k \in 1..Len(w) |-> Chr(w[k])])     \* a literal word

(***************************************************************************)
(* Regular expressions: matching.  A match state is <<p, gs, ge>>: the     *)
(* next position to read and the span [gs, ge) of the capture group        *)
(* (0, 0 while unset).  Match returns every way r can match from a state,  *)
(* in the order a backtracking matcher tries them.                         *)
(***************************************************************************)
CharMatches(c, cs, ic) == c \in cs \/ (ic /\ LowerChar(c) \in cs)

IsWordAt(s, p) == p >= 1 /\ p <= Len(s) /\ s[p] \in WordChar

AtWordBoundary(s, p) == IsWordAt(s, p - 1) # IsWordAt(s, p)

\* $ matches at the end and before a newline that ends the string
AtEnd(s, p) == p = Len(s) + 1 \/ (p = Len(s) /\ s[p] = "\n")

RECURSIVE Match(_, _, _, _)
RECURSIVE MatchEach(_, _, _, _, _)
RECURSIVE MatchCat(_, _, _, _, _)
RECURSIVE MatchAlt(_, _, _, _, _)
RECURSIVE MatchRep(_, _, _, _, _)
RECURSIVE MatchRepEach(_, _, _, _, _, _)

Match(r, s, ic, st) ==
    LET p == st[1] IN
    CASE r.t = "in" ->
           IF p <= Len(s) /\ CharMatches(s[p], r.cs, ic)
           THEN << <<p + 1, st[2], st[3]>> >> ELSE <<>>
      [] r.t = "notin" ->
           IF p <= Len(s) /\ ~CharMatches(s[p], r.cs, ic)
           THEN << <<p + 1, st[2], st[3]>> >> ELSE <<>>
      [] r.t = "wb" -> IF AtWordBoundary(s, p) THEN <<st>> ELSE <<>>
      [] r.t = "nlb" -> IF p > 1 /\ s[p - 1] \in r.cs THEN <<>> ELSE <<st>>
      [] r.t = "nla" -> IF p <= Len(s) /\ s[p] \in r.cs THEN <<>> ELSE <<st>>
      [] r.t = "eos" -> IF AtEnd(s, p) THEN <<st>> ELSE <<>>
      [] r.t = "grp" ->
           LET inner == Match(r.r, s, ic, st)
           IN  [k \in 1..Len(inner) |-> <<inner[k][1], p, inner[k][1]>>]
      [] r.t = "cat" -> MatchCat(r.rs, 1, s, ic, <<st>>)
      [] r.t = "alt" -> MatchAlt(r.rs, 1, s, ic, st)
      [] r.t = "rep" -> MatchRep(r, s, ic, st, 0)

\* the matches of r from each of the states sts, in order
MatchEach(r, s, ic, sts, k) ==
    IF k > Len(sts) THEN <<>>
    ELSE Match(r, s, ic, sts[k]) \o MatchEach(r, s, ic, sts, k + 1)

MatchCat(rs, k, s, ic, sts) ==
    IF k > Len(rs) \/ sts = <<>> THEN sts
    ELSE MatchCat(rs, k + 1, s, ic, MatchEach(rs[k], s, ic, sts, 1))

MatchAlt(rs, k, s, ic, st) ==
    IF k > Len(rs) THEN <<>>
    ELSE Match(rs[k], s, ic, st) \o MatchAlt(rs, k + 1, s, ic, st)

\* n repetitions are done; greedy tries another one first, lazy stops first
MatchRep(r, s, ic, st, n) ==
    LET stop == IF n >= r.lo THEN <<st>> ELSE <<>>
        once == IF r.hi = -1 \/ n < r.hi
                THEN SelectSeq(Match(r.r, s, ic, st), LAMBDA x : x[1] > st[1])
                ELSE <<>>
        more == MatchRepEach(r, s, ic, once, n + 1, 1)
    IN  IF r.lazy THEN stop \o more ELSE more \o stop

MatchRepEach(r, s, ic, sts, n, k) ==
    IF k > Len(sts) THEN <<>>
    ELSE MatchRep(r, s, ic, sts[k], n) \o MatchRepEach(r, s, ic, sts, n, k + 1)

\* pattern.match(s, pos): the first way r matches at position p, or None.
\* A match is [start, end, gs, ge], positions 1-based, ends exclusive.
MatchAt(r, s, ic, p) ==
    LET ms == Match(r, s, ic, <<p, 0, 0>>)
    IN  IF ms = <<>> THEN None
        ELSE Some([start |-> p, end |-> ms[1][1], gs |-> ms[1][2], ge |-> ms[1][3]])

\* pattern.search(s, pos): the leftmost match at or after position p, or None
SearchFrom(r, s, ic, p) ==
    LET starts == {q \in p..(Len(s) + 1) : IsSome(MatchAt(r, s, ic, q))}
    IN  IF starts = {} THEN None
        ELSE MatchAt(r, s, ic, CHOOSE q \in starts : \A j \in starts : q <= j)

\* re.search(r, s)
Search(r, s, ic) == SearchFrom(r, s, ic, 1)

\* match.group(name) of a match m (not None)
GroupText(s, m) == Slice(s, The(m).gs, The(m).ge)

RECURSIVE FindAllFrom(_, _, _, _)
\* pattern.findall(s) of a pattern without capture groups: the texts of the
\* successive non-overlapping matches, left to right
FindAllFrom(r, s, ic, p) ==
    LET m == SearchFrom(r, s, ic, p)
    IN  IF m = None THEN <<>>
        ELSE <<Slice(s, The(m).start, The(m).end)>>
             \o FindAllFrom(r, s, ic, IF The(m).end > The(m).start
                                      THEN The(m).end ELSE The(m).end + 1)

FindAll(r, s, ic) == FindAllFrom(r, s, ic, 1)

(***************************************************************************)
(* parser.py: address patterns                                             *)
(***************************************************************************)
HexDigit == Digit \cup {"a", "b", "c", "d", "e", "f", "A", "B", "C", "D", "E", "F"}

\* (?:25[0-5]|(?:2[0-4]|1{0,1}[0-9]){0,1}[0-9])
IPV4_SEGMENT ==
    Alt(<< Cat(<<Chr("2"), Chr("5"), In({"0", "1", "2", "3", "4", "5"})>>),
           Cat(<<Opt(Alt(<< Cat(<<Chr("2"), In({"0", "1", "2", "3", "4"})>>),
                            Cat(<<Opt(Chr("1")), In(Digit)>>) >>)),
                 In(Digit)>>) >>)

\* (?<![0-9.])(?:SEGMENT\.){3,3}SEGMENT(?![0-9.])
IPV4_ADDRESS ==
    Cat(<< NotBehind(Digit \cup {"."}),
           Rep(Cat(<<IPV4_SEGMENT, Chr(".")>>), 3, 3),
           IPV4_SEGMENT,
           NotAhead(Digit \cup {"."}) >>)

\* [0-9a-fA-F]{1,4}
IPV6_SEGMENT == Rep(In(HexDigit), 1, 4)

SegColon == Cat(<<IPV6_SEGMENT, Chr(":")>>)     \* (?:SEGMENT:)
ColonSeg == Cat(<<Chr(":"), IPV6_SEGMENT>>)     \* (?::SEGMENT)

\* \b(?: twelve alternatives )\b, in the order of the source
IPV6_ADDRESS ==
    Cat(<< WordBoundary,
           Alt(<< Cat(<<Rep(SegColon, 7, 7), IPV6_SEGMENT>>),
                  Cat(<<Rep(SegColon, 1, 7), Chr(":")>>),
                  Cat(<<Rep(SegColon, 1, 6), Chr(":"), IPV6_SEGMENT>>),
                  Cat(<<Rep(SegColon, 1, 5), Rep(ColonSeg, 1, 2)>>),
                  Cat(<<Rep(SegColon, 1, 4), Rep(ColonSeg, 1, 3)>>),
                  Cat(<<Rep(SegColon, 1, 3), Rep(ColonSeg, 1, 4)>>),
                  Cat(<<Rep(SegColon, 1, 2), Rep(ColonSeg, 1, 5)>>),
                  Cat(<<IPV6_SEGMENT, Chr(":"), Rep(ColonSeg, 1, 6)>>),
                  Cat(<<Chr(":"), Alt(<<Rep(ColonSeg, 1, 7), Chr(":")>>)>>),
                  Cat(<<Lit(<<"f", "e", "8", "0", ":">>), Rep(ColonSeg, 0, 4),
                        Chr("%"), Plus(In(Digit \cup LowerCase \cup UpperCase))>>),
                  Cat(<<Chr(":"), Chr(":"),
                        Opt(Cat(<<Lit(<<"f", "f", "f", "f">>),
                                  Opt(Cat(<<Chr(":"), Rep(Chr("0"), 1, 4)>>)),
                                  Chr(":")>>)),
                        IPV4_ADDRESS>>),
                  Cat(<<Rep(SegColon, 1, 4), Chr(":"), IPV4_ADDRESS>>) >>),
           WordBoundary >>)

IPV4_PATTERN == IPV4_ADDRESS
IPV6_PATTERN == IPV6_ADDRESS

(***************************************************************************)
(* parser.py: TLS detection                                                *)
(***************************************************************************)
TLS_INDICATOR_TOKENS ==
    << <<"e", "s", "m", "t", "p", "s">>,
       <<"e", "s", "m", "t", "p", "s", "a">>,
       <<"s", "m", "t", "p", "s">>,
       <<"w", "i", "t", "h", " ", "t", "l", "s">>,
       <<"s", "t", "a", "r", "t", "t", "l", "s">>,
       <<"t", "l", "s">>,
       <<"s", "s", "l">>,
       <<"e", "n", "c", "r", "y", "p", "t", "e", "d">> >>

\* \bwith\s+(smtp|esmtp|lmtp), the closing \b left out
PLAINTEXT_PROTOCOL_PATTERN_open ==
    Cat(<< WordBoundary, Lit(<<"w", "i", "t", "h">>), Plus(In(Whitespace)),
           Group(Alt(<< Lit(<<"s", "m", "t", "p">>),
                        Lit(<<"e", "s", "m", "t", "p">>),
                        Lit(<<"l", "m", "t", "p">>) >>)) >>)

\* \b(smtp|esmtp|lmtp)\b, the keyword left out
PLAINTEXT_PROTOCOL_PATTERN_bare ==
    Cat(<< WordBoundary,
           Group(Alt(<< Lit(<<"s", "m", "t", "p">>),
                        Lit(<<"e", "s", "m", "t", "p">>),
                        Lit(<<"l", "m", "t", "p">>) >>)),
           WordBoundary >>)

\* \bwith\s+(smtp|esmtp|lmtp)\b, IGNORECASE
PLAINTEXT_PROTOCOL_PATTERN ==
    Cat(<< WordBoundary, Lit(<<"w", "i", "t", "h">>), Plus(In(Whitespace)),
           Group(Alt(<< Lit(<<"s", "m", "t", "p">>),
                        Lit(<<"e", "s", "m", "t", "p">>),
                        Lit(<<"l", "m", "t", "p">>) >>)),
           WordBoundary >>)

\* the plaintext keyword looked for before the TLS tokens
_detect_tls_encryption_plain_first(raw_header) ==
    LET lower_header == Lower(raw_header) IN
    IF IsSome(Search(PLAINTEXT_PROTOCOL_PATTERN, lower_header, TRUE))
    THEN Some(FALSE)
    ELSE IF \E k \in 1..Len(TLS_INDICATOR_TOKENS) :
                Contains(lower_header, TLS_INDICATOR_TOKENS[k])
         THEN Some(TRUE)
         ELSE None

\* Optional[bool]: Some(TRUE), Some(FALSE) or None
_detect_tls_encryption(raw_header) ==
    LET lower_header == Lower(raw_header) IN
    IF \E k \in 1..Len(TLS_INDICATOR_TOKENS) :
           Contains(lower_header, TLS_INDICATOR_TOKENS[k])
    THEN Some(TRUE)
    ELSE IF IsSome(Search(PLAINTEXT_PROTOCOL_PATTERN, lower_header, TRUE))
         THEN Some(FALSE)
         ELSE None

(***************************************************************************)
(* parser.py: address extraction                                           *)
(***************************************************************************)
\* both families returned together
_extract_ip_addresses_both(raw_header) ==
    FindAll(IPV4_PATTERN, raw_header, FALSE) \o FindAll(IPV6_PATTERN, raw_header, FALSE)

_extract_ip_addresses_from_header(raw_header) ==
    LET ipv4_addresses == FindAll(IPV4_PATTERN, raw_header, FALSE)
    IN  IF ipv4_addresses # <<>> THEN ipv4_addresses
        ELSE FindAll(IPV6_PATTERN, raw_header, FALSE)

(***************************************************************************)
(* parser.py: clause extraction                                            *)
(***************************************************************************)
RECURSIVE LStrip(_)
LStrip(s) == IF s # <<>> /\ Head(s) \in Whitespace THEN LStrip(Tail(s)) ELSE s

RECURSIVE RStrip(_)
RStrip(s) == IF s # <<>> /\ s[Len(s)] \in Whitespace
             THEN RStrip(SubSeq(s, 1, Len(s) - 1)) ELSE s

\* str.strip()
Strip(s) == RStrip(LStrip(s))

\* ' '.join(raw.split()): whitespace runs become one space, none at the ends.
\* The characters kept are those of the words and, of each run of whitespace
\* between two words, the first, which becomes a space.
Normalize(raw) ==
    LET word(k) == raw[k] \notin Whitespace
        kept(k) == \/ word(k)
                   \/ /\ k > 1 /\ word(k - 1)
                      /\ \E j \in (k + 1)..Len(raw) : word(j)
        places == SelectSeq([k \in 1..Len(raw) |-> k], kept)
    IN  [i \in 1..Len(places) |-> IF word(places[i]) THEN raw[places[i]] ELSE " "]

Spaces == Plus(In(Whitespace))                  \* \s+

\* a different pattern: the text of the clause is one word
from_host_pattern_one_word ==
    Cat(<< WordBoundary, Lit(<<"f", "r", "o", "m">>), Spaces,
           Group(Plus(NotIn(Whitespace))), Spaces,
           Alt(<< Lit(<<"b", "y">>), Lit(<<"w", "i", "t", "h">>), Lit(<<"i", "d">>),
                  Lit(<<"f", "o", "r">>), Chr(";") >>) >>)

\* \bfrom\s+(?P<from_host>.+?)\s+(?:by|with|id|for|;)
from_host_pattern ==
    Cat(<< WordBoundary, Lit(<<"f", "r", "o", "m">>), Spaces,
           Group(LazyPlus(Dot)), Spaces,
           Alt(<< Lit(<<"b", "y">>), Lit(<<"w", "i", "t", "h">>), Lit(<<"i", "d">>),
                  Lit(<<"f", "o", "r">>), Chr(";") >>) >>)

\* \bby\s+(?P<by_host>.+?)\s+(?:with|id|for|;)
by_host_pattern ==
    Cat(<< WordBoundary, Lit(<<"b", "y">>), Spaces,
           Group(LazyPlus(Dot)), Spaces,
           Alt(<< Lit(<<"w", "i", "t", "h">>), Lit(<<"i", "d">>),
                  Lit(<<"f", "o", "r">>), Chr(";") >>) >>)

\* \bwith\s+(?P<with_proto>.+?)\s+(?:id|for|;)
with_proto_pattern ==
    Cat(<< WordBoundary, Lit(<<"w", "i", "t", "h">>), Spaces,
           Group(LazyPlus(Dot)), Spaces,
           Alt(<< Lit(<<"i", "d">>), Lit(<<"f", "o", "r">>), Chr(";") >>) >>)

\* \bid\s+(?P<id>\S+)
id_pattern ==
    Cat(<< WordBoundary, Lit(<<"i", "d">>), Spaces, Group(Plus(NotIn(Whitespace))) >>)

\* \bfor\s+(?P<for_addr>.+?)\s*;, the end of the string left out
for_addr_pattern_semicolon_only ==
    Cat(<< WordBoundary, Lit(<<"f", "o", "r">>), Spaces,
           Group(LazyPlus(Dot)), Star(In(Whitespace)), Chr(";") >>)

\* \bfor\s+(?P<for_addr>.+?)\s*(?:;|$)
for_addr_pattern ==
    Cat(<< WordBoundary, Lit(<<"f", "o", "r">>), Spaces,
           Group(LazyPlus(Dot)), Star(In(Whitespace)),
           Alt(<< Chr(";"), EndOfString >>) >>)

\* m = re.search(pattern, text, re.IGNORECASE); m.group(name).strip() if m else None
Clause(pattern, text) ==
    LET m == Search(pattern, text, TRUE)
    IN  IF IsSome(m) THEN Some(Strip(GroupText(text, m))) ELSE None

(***************************************************************************)
(* parser.py: timestamp                                                    *)
(***************************************************************************)
\* the days the clock of the model shows: the last day of a year, the first
\* of the next
NewYearsEve == [year |-> 2024, month |-> 12, day |-> 31]
NewYearsDay == [year |-> 2025, month |-> 1, day |-> 1]

RECURSIVE LastIndexOf(_, _)
\* str.rfind(c) + 1: the last position of c in s, 0 when there is none
LastIndexOf(s, c) ==
    IF s = <<>> THEN 0
    ELSE IF s[Len(s)] = c THEN Len(s) ELSE LastIndexOf(SubSeq(s, 1, Len(s) - 1), c)

\* the month names dateutil knows, as far as the model spells dates
MonthOf(name) ==
    CASE name = <<"J", "a", "n">> -> 1
      [] name = <<"F", "e", "b">> -> 2
      [] OTHER -> 0

DigitVal(c) == CHOOSE d \in 0..9 : DigitChar[d] = c

\* the number four digits spell, 0 when the text is not four digits
YearOf(text) ==
    IF Len(text) = 4 /\ \A k \in 1..4 : text[k] \in Digit
    THEN 1000 * DigitVal(text[1]) + 100 * DigitVal(text[2])
         + 10 * DigitVal(text[3]) + DigitVal(text[4])
    ELSE 0

\* the number two digits spell at k and k + 1 of text, -1 when they are not
\* two digits
TwoDigits(text, k) ==
    IF text[k] \in Digit /\ text[k + 1] \in Digit
    THEN 10 * DigitVal(text[k]) + DigitVal(text[k + 1])
    ELSE -1

\* "D Mon": a one-digit day and a month name
IsDayMonth(text) ==
    /\ Len(text) = 5
    /\ text[1] \in Digit \ {"0"}
    /\ text[2] = " "
    /\ MonthOf(SubSeq(text, 3, 5)) # 0

\* "D Mon YYYY"
IsDayMonthYear(text) ==
    /\ Len(text) = 10
    /\ IsDayMonth(SubSeq(text, 1, 5))
    /\ text[6] = " "
    /\ YearOf(SubSeq(text, 7, 10)) # 0

\* "HH:MM:SS", a time of the day
IsTime(text) ==
    /\ Len(text) = 8
    /\ text[3] = ":" /\ text[6] = ":"
    /\ TwoDigits(text, 1) \in 0..23
    /\ TwoDigits(text, 4) \in 0..59
    /\ TwoDigits(text, 7) \in 0..59

Weekdays ==
    { <<"M", "o", "n">>, <<"T", "u", "e">>, <<"W", "e", "d">>, <<"T", "h", "u">>,
      <<"F", "r", "i">>, <<"S", "a", "t">>, <<"S", "u", "n">> }

\* "Www, D Mon YYYY HH:MM:SS +0000", the date of a Received header
IsFullDate(text) ==
    /\ Len(text) = 30
    /\ SubSeq(text, 1, 3) \in Weekdays
    /\ text[4] = "," /\ text[5] = " "
    /\ IsDayMonthYear(SubSeq(text, 6, 15))
    /\ text[16] = " "
    /\ IsTime(SubSeq(text, 17, 24))
    /\ SubSeq(text, 25, 30) = <<" ", "+", "0", "0", "0", "0">>

Midnight(year, month, day) ==
    [year |-> year, month |-> month, day |-> day,
     hour |-> 0, minute |-> 0, second |-> 0, utc |-> FALSE]

\* dateutil's parser.parse, reduced to the texts the model spells. What the
\* text does not say is taken from the default, today at midnight:
\*   "D Mon YYYY"                      that day at midnight
\*   "D Mon"                           that day of the current year
\*   "HH:MM:SS"                        that time today
\*   "Www, D Mon YYYY HH:MM:SS +0000"  that time of that day, UTC (the name
\*                                     of the weekday is not used when the
\*                                     day is given)
\* any other text raises ParserError
dtparser_parse(text) ==
    CASE IsDayMonthYear(text) ->
           [raised |-> FALSE,
            value |-> Midnight(YearOf(SubSeq(text, 7, 10)), MonthOf(SubSeq(text, 3, 5)),
                               DigitVal(text[1]))]
      [] IsDayMonth(text) ->
           [raised |-> FALSE,
            value |-> Midnight(today.year, MonthOf(SubSeq(text, 3, 5)), DigitVal(text[1]))]
      [] IsTime(text) ->
           [raised |-> FALSE,
            value |-> [Midnight(today.year, today.month, today.day) EXCEPT
                         !.hour = TwoDigits(text, 1),
                         !.minute = TwoDigits(text, 4),
                         !.second = TwoDigits(text, 7)]]
      [] IsFullDate(text) ->
           [raised |-> FALSE,
            value |-> [Midnight(YearOf(SubSeq(text, 12, 15)), MonthOf(SubSeq(text, 8, 10)),
                                DigitVal(text[6])) EXCEPT
                         !.hour = TwoDigits(text, 17),
                         !.minute = TwoDigits(text, 20),
                         !.second = TwoDigits(text, 23),
                         !.utc = TRUE]]
      [] OTHER -> [raised |-> TRUE, value |-> Midnight(0, 0, 0)]

\* a different extraction: the text between the first ';' and the next one
_extract_timestamp_from_received_header_after_first(raw_header) ==
    IF ~Contains(raw_header, <<";">>) THEN None
    ELSE LET first == CHOOSE k \in 1..Len(raw_header) :
                          /\ raw_header[k] = ";"
                          /\ \A j \in 1..(k - 1) : raw_header[j] # ";"
             later == {k \in (first + 1)..Len(raw_header) : raw_header[k] = ";"}
             stop == IF later = {} THEN Len(raw_header) + 1
                     ELSE CHOOSE k \in later : \A j \in later : k <= j
             parsed == dtparser_parse(Strip(Slice(raw_header, first + 1, stop)))
         IN  IF parsed.raised THEN None ELSE Some(parsed.value)

_extract_timestamp_from_received_header(raw_header) ==
    IF ~Contains(raw_header, <<";">>) THEN None
    ELSE LET timestamp_part ==
                 Strip(Slice(raw_header, LastIndexOf(raw_header, ";") + 1,
                             Len(raw_header) + 1))
             parsed == dtparser_parse(timestamp_part)
         IN  IF parsed.raised THEN None ELSE Some(parsed.value)

(***************************************************************************)
(* parser.py: one hop                                                      *)
(***************************************************************************)
\* a different parser: a search that finds nothing ends the extraction of
\* the clauses
_parse_received_single_first_miss_stops(raw, index) ==
    LET normalized_header == Normalize(raw)
        from_host == Clause(from_host_pattern, normalized_header)
        by_host == IF IsSome(from_host)
                   THEN Clause(by_host_pattern, normalized_header) ELSE None
        with_proto == IF IsSome(by_host)
                      THEN Clause(with_proto_pattern, normalized_header) ELSE None
        id == IF IsSome(with_proto)
              THEN Clause(id_pattern, normalized_header) ELSE None
        for_addr == IF IsSome(id)
                    THEN Clause(for_addr_pattern, normalized_header) ELSE None
    IN
    [ index     |-> index,
      raw       |-> raw,
      from_host |-> from_host,
      by_host   |-> by_host,
      with_proto |-> with_proto,
      id        |-> id,
      for_addr  |-> for_addr,
      timestamp |-> _extract_timestamp_from_received_header(raw),
      ips       |-> _extract_ip_addresses_from_header(raw),
      tls       |-> _detect_tls_encryption(raw),
      geo       |-> None ]

_parse_received_single(raw, index) ==
    LET normalized_header == Normalize(raw) IN
    [ index     |-> index,
      raw       |-> raw,
      from_host |-> Clause(from_host_pattern, normalized_header),
      by_host   |-> Clause(by_host_pattern, normalized_header),
      with_proto |-> Clause(with_proto_pattern, normalized_header),
      id        |-> Clause(id_pattern, normalized_header),
      for_addr  |-> Clause(for_addr_pattern, normalized_header),
      timestamp |-> _extract_timestamp_from_received_header(raw),
      ips       |-> _extract_ip_addresses_from_header(raw),
      tls       |-> _detect_tls_encryption(raw),
      geo       |-> None ]

\* two digits for a number below 100
Pad2(n) == << DigitChar[n \div 10], DigitChar[n % 10] >>

\* datetime.isoformat(): YYYY-MM-DDTHH:MM:SS, and +00:00 after it when the
\* datetime carries the UTC offset
isoformat(dt) ==
    << DigitChar[(dt.year \div 1000) % 10], DigitChar[(dt.year \div 100) % 10],
       DigitChar[(dt.year \div 10) % 10], DigitChar[dt.year % 10] >>
    \o <<"-">> \o Pad2(dt.month) \o <<"-">> \o Pad2(dt.day)
    \o <<"T">> \o Pad2(dt.hour) \o <<":">> \o Pad2(dt.minute) \o <<":">> \o Pad2(dt.second)
    \o (IF dt.utc THEN <<"+", "0", "0", ":", "0", "0">> ELSE <<>>)

\* Hop.to_dict(): the fields copied, the timestamp as ISO text
to_dict(h) ==
    [h EXCEPT !.timestamp = IF IsSome(h.timestamp)
                            THEN Some(isoformat(The(h.timestamp))) ELSE None]

(***************************************************************************)
(* parser.py: the relay chain                                              *)
(***************************************************************************)
\* Message.get_all(name): the values of the headers called name, in header
\* order, None when there is none
get_all(msg, name) ==
    LET found == SelectSeq(msg, LAMBDA h : h.name = name)
    IN  IF found = <<>> THEN None
        ELSE Some([k \in 1..Len(found) |-> found[k].value])

\* `x or []`
OrEmpty(o) == IF IsSome(o) /\ The(o) # <<>> THEN The(o) ELSE <<>>

Reversed_kept_order(xs) == xs

\* list(reversed(xs))
Reversed(xs) == [k \in 1..Len(xs) |-> xs[Len(xs) + 1 - k]]

parse_received_hops(msg) ==
    LET received_headers == Reversed(OrEmpty(get_all(msg, "Received")))
    IN  [k \in 1..Len(received_headers) |->
            _parse_received_single(received_headers[k], k - 1)]

(***************************************************************************)
(* parser.py: authentication results                                       *)
(***************************************************************************)
\* w1|w2|...
Words(ws) == Alt([k \in 1..Len(ws) |-> Lit(ws[k])])

\* a different pattern: any word after spf= is a verdict
spf_pattern_any_word ==
    Cat(<< WordBoundary, Lit(<<"s", "p", "f", "=">>),
           Group(Plus(In(WordChar))), WordBoundary >>)

\* \bspf=(?P<spf>pass|fail|neutral|none|softfail|temperror)\b
spf_pattern ==
    Cat(<< WordBoundary, Lit(<<"s", "p", "f", "=">>),
           Group(Words(<< <<"p", "a", "s", "s">>, <<"f", "a", "i", "l">>,
                          <<"n", "e", "u", "t", "r", "a", "l">>, <<"n", "o", "n", "e">>,
                          <<"s", "o", "f", "t", "f", "a", "i", "l">>,
                          <<"t", "e", "m", "p", "e", "r", "r", "o", "r">> >>)),
           WordBoundary >>)

\* \bdkim=(?P<dkim>pass|fail|none|neutral)\b
dkim_pattern ==
    Cat(<< WordBoundary, Lit(<<"d", "k", "i", "m", "=">>),
           Group(Words(<< <<"p", "a", "s", "s">>, <<"f", "a", "i", "l">>,
                          <<"n", "o", "n", "e">>,
                          <<"n", "e", "u", "t", "r", "a", "l">> >>)),
           WordBoundary >>)

\* \bdmarc=(?P<dmarc>pass|fail|none|bestguesspass)\b
dmarc_pattern ==
    Cat(<< WordBoundary, Lit(<<"d", "m", "a", "r", "c", "=">>),
           Group(Words(<< <<"p", "a", "s", "s">>, <<"f", "a", "i", "l">>,
                          <<"n", "o", "n", "e">>,
                          <<"b", "e", "s", "t", "g", "u", "e", "s", "s", "p", "a", "s", "s">> >>)),
           WordBoundary >>)

\* m = re.search(pattern, text, re.IGNORECASE); m.group(name).lower() if m,
\* the key left out of the entry (None) otherwise
Verdict(pattern, text) ==
    LET m == Search(pattern, text, TRUE)
    IN  IF IsSome(m) THEN Some(Lower(GroupText(text, m))) ELSE None

_parse_single_authentication_header(auth_header) ==
    [ spf   |-> Verdict(spf_pattern, auth_header),
      dkim  |-> Verdict(dkim_pattern, auth_header),
      dmarc |-> Verdict(dmarc_pattern, auth_header) ]

\* a different parser: the verdicts come out newest header last
parse_authentication_results_reversed(msg) ==
    LET auth_headers == OrEmpty(get_all(msg, "Authentication-Results")) IN
    [ raw    |-> auth_headers,
      parsed |-> [k \in 1..Len(auth_headers) |->
                     _parse_single_authentication_header(
                         auth_headers[Len(auth_headers) + 1 - k])],
      dkim_signature |-> OrEmpty(get_all(msg, "DKIM-Signature")),
      received_spf   |-> OrEmpty(get_all(msg, "Received-SPF")) ]

parse_authentication_results(msg) ==
    LET auth_headers == OrEmpty(get_all(msg, "Authentication-Results")) IN
    [ raw    |-> auth_headers,
      parsed |-> [k \in 1..Len(auth_headers) |->
                     _parse_single_authentication_header(auth_headers[k])],
      dkim_signature |-> OrEmpty(get_all(msg, "DKIM-Signature")),
      received_spf   |-> OrEmpty(get_all(msg, "Received-SPF")) ]

(***************************************************************************)
(* geolocate.py                                                            *)
(***************************************************************************)
\* dict.get(key)
Get(d, key) == IF key \in DOMAIN d THEN Some(d[key]) ELSE None

\* What requests.get did: raised, or returned a response with a status code
\* and a body; response.json() raises unless the body is JSON.
\* Returns [raised, value]: raised when an exception leaves geolocate_ip.
geolocate_ip(ip_address, response) ==
    IF response.exception THEN [raised |-> FALSE, value |-> None]
    ELSE IF response.status_code # 200 THEN [raised |-> FALSE, value |-> None]
    ELSE IF ~response.is_json THEN [raised |-> TRUE, value |-> None]
    ELSE IF ~response.is_object THEN [raised |-> TRUE, value |-> None]
    ELSE LET json_data == response.json IN
         IF Get(json_data, "status") = Some("success")
         THEN [raised |-> FALSE,
               value |-> Some([ip |-> ip_address,
                               country |-> Get(json_data, "country"),
                               country_iso |-> Get(json_data, "countryCode"),
                               city |-> Get(json_data, "city"),
                               lat |-> Get(json_data, "lat"),
                               lon |-> Get(json_data, "lon"),
                               timezone |-> Get(json_data, "timezone")])]
         ELSE [raised |-> FALSE, value |-> None]

(***************************************************************************)
(* The network, as geolocate_ip can meet it                                *)
(***************************************************************************)
NoJson == [status |-> "none"]

Responses ==
    { \* requests.get raised (timeout, connection refused)
      [exception |-> TRUE, status_code |-> 0, is_json |-> FALSE, is_object |-> FALSE,
       json |-> NoJson],
      \* rate limited
      [exception |-> FALSE, status_code |-> 429, is_json |-> FALSE, is_object |-> FALSE,
       json |-> NoJson],
      \* 200 with a body that is not JSON
      [exception |-> FALSE, status_code |-> 200, is_json |-> FALSE, is_object |-> FALSE,
       json |-> NoJson],
      \* 200 with a JSON body that is not an object
      [exception |-> FALSE, status_code |-> 200, is_json |-> TRUE, is_object |-> FALSE,
       json |-> NoJson],
      \* 200, no match
      [exception |-> FALSE, status_code |-> 200, is_json |-> TRUE, is_object |-> TRUE,
       json |-> [status |-> "fail", message |-> "reserved range"]],
      \* 200, a match
      [exception |-> FALSE, status_code |-> 200, is_json |-> TRUE, is_object |-> TRUE,
       json |-> [status |-> "success", country |-> "Iceland", countryCode |-> "IS",
                 city |-> "Reykjavik", lat |-> "64.1", lon |-> "-21.9",
                 timezone |-> "Atlantic/Reykjavik"]] }

(***************************************************************************)
(* json_report.py: generate_json_report, one step per loop iteration       *)
(***************************************************************************)
\* the files that can be opened for reading
Readable(path) == path \in {"ok.eml", "/tmp/fetched.eml"}

\* load_email(path): the message in the file, or the exception of open()
load_email(path) ==
    IF Readable(path) THEN [raised |-> FALSE, value |-> message]
    ELSE [raised |-> TRUE, value |-> <<>>]

\* msg = load_email(eml_path); hops = parse_received_hops(msg)
ParseMessage ==
    /\ pc = "start"
    /\ LET msg == load_email(eml_path) IN
       IF msg.raised
       THEN /\ pc' = "load_failed"
            /\ UNCHANGED <<hops, cursor>>
       ELSE /\ hops' = parse_received_hops(msg.value)
            /\ cursor' = 0
            /\ pc' = "geolocate"
    /\ UNCHANGED <<header, hop, message, lookups, responses, outcomes, report, today,
                   auth, files, eml_path, args, env, cli, status, errors, calls,
                   fetch, second, json_out>>

\* `if hop.ips:`
has_ips(h) == h.ips # <<>>

ip_address_of_last(h) == h.ips[Len(h.ips)]

\* `ip_address = hop.ips[0]`
ip_address_of(h) == h.ips[1]

\* a different assignment: the result goes to the first hop
StoreGeo_in_first_hop(hs, k, geo) == [hs EXCEPT ![1].geo = geo]

\* a different assignment: the hop keeps the address that was looked up only
StoreGeo_and_first_address(hs, k, geo) ==
    [hs EXCEPT ![k].geo = geo, ![k].ips = <<hs[k].ips[1]>>]

\* `hop.geo = geo` on the k-th hop of the list
StoreGeo(hs, k, geo) == [hs EXCEPT ![k].geo = geo]

\* one iteration of `for hop in hops`: a hop without addresses is passed by;
\* otherwise its first address is looked up and the result stored in hop.geo,
\* unless geolocate_ip raises, which ends generate_json_report
GeolocateHop ==
    /\ pc = "geolocate"
    /\ cursor < Len(hops)
    /\ LET h == hops[cursor + 1] IN
       IF ~has_ips(h)
       THEN /\ cursor' = cursor + 1
            /\ UNCHANGED <<hops, pc, lookups, responses, outcomes>>
       ELSE \E response \in Responses :
              LET ip_address == ip_address_of(h)
                  geo == geolocate_ip(ip_address, response)
              IN  /\ lookups' = Append(lookups, ip_address)
                  /\ responses' = Append(responses, response)
                  /\ outcomes' = Append(outcomes, geo)
                  /\ IF geo.raised
                     THEN /\ pc' = "raised"
                          /\ UNCHANGED <<hops, cursor>>
                     ELSE /\ hops' = StoreGeo(hops, cursor + 1, geo.value)
                          /\ cursor' = cursor + 1
                          /\ UNCHANGED pc
    /\ UNCHANGED <<header, hop, message, report, today,
                   auth, files, eml_path, args, env, cli, status, errors, calls,
                   fetch, second, json_out>>

\* after the loop: auth = parse_authentication_results(msg)
ParseAuthentication ==
    /\ pc = "geolocate"
    /\ cursor = Len(hops)
    /\ auth' = Some(parse_authentication_results(message))
    /\ pc' = "render"
    /\ UNCHANGED <<header, hop, message, hops, cursor, lookups, responses, outcomes,
                   report, today, files, eml_path, args, env, cli, status, errors, calls,
                   fetch, second, json_out>>

\* build_map draws the hops that have a geolocation with coordinates
HasCoordinates(hs) == \E k \in 1..Len(hs) : IsSome(hs[k].geo)

\* build_graph and build_map: the diagram is written unless graphviz fails to
\* render (build_graph then returns None), the map when a hop has coordinates
RenderHops ==
    /\ pc = "render"
    /\ \E rendered \in BOOLEAN :
          files' = files \cup (IF rendered THEN {"graph"} ELSE {})
                         \cup (IF HasCoordinates(hops) THEN {"map"} ELSE {})
    /\ pc' = "report"
    /\ UNCHANGED <<header, hop, message, hops, cursor, lookups, responses, outcomes,
                   report, today, auth, eml_path, args, env, cli, status, errors, calls,
                   fetch, second, json_out>>

\* the characters of the paths of the model
PathText(path) ==
    CASE path = "ok.eml" -> <<"o", "k", ".", "e", "m", "l">>
      [] path = "missing.eml" -> <<"m", "i", "s", "s", "i", "n", "g", ".", "e", "m", "l">>
      [] path = "/tmp/fetched.eml" ->
            <<"/", "t", "m", "p", "/", "f", "e", "t", "c", "h", "e", "d", ".", "e", "m", "l">>

\* os.path.basename(p)
basename(p) == SubSeq(p, LastIndexOf(p, "/") + 1, Len(p))

\* os.path.splitext(p)[0]: p without its extension, which begins at the last
\* dot of the file name unless only dots stand before it there
splitext_root(p) ==
    LET sep == LastIndexOf(p, "/")
        dot == LastIndexOf(p, ".")
    IN  IF dot > sep /\ \E k \in (sep + 1)..(dot - 1) : p[k] # "."
        THEN SubSeq(p, 1, dot - 1)
        ELSE p

ReportJsonSuffix == <<".", "r", "e", "p", "o", "r", "t", ".", "j", "s", "o", "n">>

\* the arguments of generate_json_report: the defaults when it is called
\* directly, the paths in the output directory when cli_entrypoint calls it
graph_out == IF cli = "idle" THEN "hops" ELSE "output_dir/hops_diagram"

map_out == IF cli = "idle" THEN "hops_map.html" ELSE "output_dir/hops_map.html"

json_out_argument ==
    IF cli = "idle" THEN None
    ELSE Some(<<"o", "u", "t", "p", "u", "t", "_", "d", "i", "r", "/">>
              \o <<"r", "e", "p", "o", "r", "t", ".", "j", "s", "o", "n">>)

\* Message.get(name, default): the value of the first header called name
header_get(msg, name, default) ==
    IF IsSome(get_all(msg, name)) THEN Some(The(get_all(msg, name))[1]) ELSE default

\* the header names of the model that begin with "X-"
XHeaderNames == {"X-Mailer", "X-Spam-Flag"}

\* extract_additional_headers(msg); decode_header leaves a subject without
\* encoded words as it is, and the subjects of the model have none; a
\* message without Content-Type has the content type text/plain
extract_additional_headers(msg) ==
    [subject_decoded |-> IF header_get(msg, "Subject", Some(<<>>)) # Some(<<>>)
                         THEN header_get(msg, "Subject", None) ELSE None,
     message_id      |-> header_get(msg, "Message-ID", Some(<<>>)),
     content_type    |-> "text/plain",
     return_path     |-> header_get(msg, "Return-Path", Some(<<>>)),
     user_agent      |-> IF header_get(msg, "User-Agent", None) \notin {None, Some(<<>>)}
                         THEN header_get(msg, "User-Agent", None)
                         ELSE header_get(msg, "X-Mailer", Some(<<>>)),
     mime_version    |-> header_get(msg, "MIME-Version", Some(<<>>)),
     x_headers       |-> SelectSeq(msg, LAMBDA h : h.name \in XHeaderNames)]

\* what build_graph returns: the path of the rendered diagram, or None when
\* graphviz failed to render
build_graph(out_basename, rendered) ==
    IF rendered THEN Some([filename |-> out_basename, format |-> "svg"]) ELSE None

\* what build_map returns: None without coordinates, else a dict of the HTML
\* of the map (here: the hops it marks) and the path it was saved to
build_map(hs, out_html) ==
    IF ~HasCoordinates(hs) THEN None
    ELSE Some([html_content |-> {k \in 1..Len(hs) : IsSome(hs[k].geo)},
               file_path |-> out_html])

\* json_report.py 29-42: the report dict
json_report_dict(path, msg, hs, verdicts, graph_path, map_result) ==
    [filename |-> basename(PathText(path)),
     filepath |-> path,
     subject  |-> header_get(msg, "Subject", None),
     from     |-> header_get(msg, "From", None),
     to       |-> header_get(msg, "To", None),
     date     |-> header_get(msg, "Date", None),
     hops     |-> [k \in 1..Len(hs) |-> to_dict(hs[k])],
     auth     |-> verdicts,
     additional_headers |-> extract_additional_headers(msg),
     graph    |-> graph_path,
     map      |-> IF IsSome(map_result) THEN Some([str |-> The(map_result).file_path])
                  ELSE None,
     map_html |-> IF IsSome(map_result) THEN Some(The(map_result).html_content)
                  ELSE None]

\* the report is built from the hops and the verdicts, written as JSON to
\* json_out, or next to the .eml file when json_out is not given, and
\* returned, unless the JSON file cannot be opened for writing
BuildReport ==
    /\ pc = "report"
    /\ \E written \in BOOLEAN :
          IF written
          THEN /\ report' = Some(json_report_dict(
                                    eml_path, message, hops, The(auth),
                                    build_graph(graph_out, "graph" \in files),
                                    build_map(hops, map_out)))
               /\ json_out' = IF json_out_argument = None
                              THEN Some(splitext_root(PathText(eml_path))
                                        \o ReportJsonSuffix)
                              ELSE json_out_argument
               /\ files' = files \cup {"json"}
               /\ pc' = "done"
          ELSE /\ pc' = "write_failed"
               /\ UNCHANGED <<report, files, json_out>>
    /\ UNCHANGED <<header, hop, message, hops, cursor, lookups, responses, outcomes,
                   today, auth, eml_path, args, env, cli, status, errors, calls,
                   fetch, second>>

generate_json_report ==
    ParseMessage \/ GeolocateHop \/ ParseAuthentication \/ RenderHops \/ BuildReport

(***************************************************************************)
(* Messages of the report specification                                    *)
(***************************************************************************)
MaxHeaders == 3

HeaderLines ==
    { [name |-> "Subject", value |-> <<"h", "i">>],
      [name |-> "Received", value |-> <<"b", "y", " ", " ", "x">>],
      [name |-> "Received", value |-> <<"[", "1", ".", "2", ".", "3", ".", "4", "]">>],
      [name |-> "Received",
       value |-> <<"1", ".", "2", ".", "3", ".", "4", " ", "9", ".", "9", ".", "9", ".", "9">>],
      [name |-> "Received", value |-> <<"b", "y", " ", "a", ":", ":", "b">>] }

Messages == UNION { [1..n -> HeaderLines] : n \in 0..MaxHeaders }

\* the command line variables while generate_json_report is called directly
NoArgs == [eml |-> None, fetch |-> None]
NoEnv == [fetch |-> "ok", makedirs |-> TRUE, html |-> TRUE]

CliIdle ==
    /\ args = NoArgs /\ env = NoEnv /\ cli = "idle" /\ status = None /\ errors = <<>>

\* no repeated calls of the parser are followed
NoCalls == calls = <<>>

\* nothing is fetched
NoFetch == fetch = [pc |-> "idle"]

\* build_report is not called, and no JSON report is written yet
NoSecond == second = [pc |-> "idle"] /\ json_out = None

Init ==
    /\ header = <<>> /\ hop = None
    /\ message \in Messages
    /\ eml_path = "ok.eml"
    /\ pc = "start" /\ hops = <<>> /\ cursor = 0
    /\ lookups = <<>> /\ responses = <<>> /\ outcomes = <<>> /\ report = None
    /\ auth = None /\ files = {}
    /\ today = NewYearsEve
    /\ CliIdle /\ NoCalls /\ NoFetch /\ NoSecond

Next == generate_json_report

Spec == Init /\ [][Next]_vars

(***************************************************************************)
(* Parser harness: one Received header, parsed once                        *)
(***************************************************************************)
\* the report variables while only the parser runs
ParserIdle ==
    /\ message = <<>> /\ pc = "idle" /\ hops = <<>> /\ cursor = 0
    /\ lookups = <<>> /\ responses = <<>> /\ outcomes = <<>> /\ report = None
    /\ auth = None /\ files = {} /\ eml_path = ""
    /\ today = NewYearsEve
    /\ CliIdle /\ NoCalls /\ NoFetch /\ NoSecond

\* hop = _parse_received_single(header, 0)
ParseHeader ==
    /\ hop = None
    /\ hop' = Some(_parse_received_single(header, 0))
    /\ UNCHANGED <<header, message, pc, hops, cursor, lookups, responses, outcomes, report,
                   today, auth, files, eml_path, args, env, cli, status, errors, calls,
                   fetch, second, json_out>>

RECURSIVE Concat(_)
\* ''.join(parts)
Concat(parts) == IF parts = <<>> THEN <<>> ELSE Head(parts) \o Concat(Tail(parts))

\* every text made of at most n of the given pieces
Texts(pieces, n) == { Concat(ps) : ps \in UNION { [1..k -> pieces] : k \in 0..n } }

(***************************************************************************)
(* Claims about report assembly (specification Spec)                       *)
(***************************************************************************)
Parsed == pc \in {"geolocate", "raised", "render", "report", "write_failed", "done"}

ReceivedPositions(msg) == {k \in 1..Len(msg) : msg[k].name = "Received"}

\* the value of the j-th Received header of msg, counting from 1 in header order
NthReceived(msg, j) ==
    msg[CHOOSE k \in ReceivedPositions(msg) :
            Cardinality({m \in ReceivedPositions(msg) : m <= k}) = j].value

\* C1: a message with n >= 0 Received headers yields exactly n hops, hop i
\* (list position i + 1) has index i and the raw text of the Received header
\* at 0-based position n-1-i in header order; n = 0 yields the empty list.
C1_HopsMirrorReceivedHeaders ==
    Parsed =>
        LET n == Cardinality(ReceivedPositions(message)) IN
        /\ Len(hops) = n
        /\ \A i \in 0..(n - 1) :
               /\ hops[i + 1].index = i
               /\ hops[i + 1].raw = NthReceived(message, n - i)

\* two different Received headers around another header, parsed to the end
C1_Witness ==
    /\ pc = "done"
    /\ Len(message) = 3 /\ message[2].name # "Received"
    /\ Len(hops) = 2 /\ hops[1].raw # hops[2].raw
    /\ hops[1].raw = message[3].value

\* the hops the geolocation loop has reached: those passed, and the one whose
\* lookup raised
Reached == IF pc = "raised" THEN cursor + 1 ELSE cursor

RECURSIVE FirstAddresses(_, _)
\* the first address of each of the first n hops that has an address, in order
FirstAddresses(hs, n) ==
    IF n = 0 THEN <<>>
    ELSE FirstAddresses(hs, n - 1)
         \o (IF Len(hs[n].ips) > 0 THEN <<Head(hs[n].ips)>> ELSE <<>>)

IsMatch(response) ==
    /\ ~response.exception /\ response.status_code = 200
    /\ response.is_json /\ response.is_object
    /\ response.json.status = "success"

\* C3 (as claimed): whatever way a lookup fails, report assembly does not
\* abort: after a failed lookup the run has not ended in the exception of a
\* lookup, and the hop of the failed lookup has geo absent.
C3_FailedLookupDoesNotAbort ==
    \A k \in 1..Len(responses) :
        ~IsMatch(responses[k]) =>
            /\ pc # "raised"
            /\ ~outcomes[k].raised /\ outcomes[k].value = None

\* C4 (as claimed): geolocate_ip never raises: every call returns absent or,
\* only when the network answered with a match, a geolocation record.
C4_GeolocateNeverRaises ==
    \A k \in 1..Len(outcomes) :
        /\ ~outcomes[k].raised
        /\ IsSome(outcomes[k].value) => IsMatch(responses[k])

(***************************************************************************)
(* Transport classification (specification SpecTls)                        *)
(***************************************************************************)
MaxTlsPieces == 3

\* "with ", smtp, lmtp, e, s, SL, tab TLS, -, encrypted: enough to spell the
\* plaintext keywords, TLS tokens in either case, and near misses of both
TlsPieces ==
    { <<"w", "i", "t", "h", " ">>,
      <<"s", "m", "t", "p">>,
      <<"l", "m", "t", "p">>,
      <<"e">>,
      <<"s">>,
      <<"S", "L">>,
      <<"\t", "T", "L", "S">>,
      <<"-">>,
      <<"e", "n", "c", "r", "y", "p", "t", "e", "d">> }

InitTls == header \in Texts(TlsPieces, MaxTlsPieces) /\ hop = None /\ ParserIdle

SpecTls == InitTls /\ [][ParseHeader]_vars

\* the same letter, whatever the case
SameLetter(a, b) == LowerChar(a) = LowerChar(b)

\* word w is spelled in s from position p on, in any case
SpelledAt(s, p, w) ==
    /\ p >= 1 /\ p + Len(w) - 1 <= Len(s)
    /\ \A j \in 1..Len(w) : SameLetter(s[p + j - 1], w[j])

ContainsIgnoreCase(s, w) == \E p \in 1..Len(s) : SpelledAt(s, p, w)

\* the whole word at position p of s is w: w is spelled there, with no word
\* character before or after it
WordAt(s, p, w) ==
    /\ SpelledAt(s, p, w)
    /\ (p = 1 \/ s[p - 1] \notin WordChar)
    /\ (p + Len(w) > Len(s) \/ s[p + Len(w)] \notin WordChar)

HasWord(s, w) == \E p \in 1..Len(s) : WordAt(s, p, w)

\* the eight tokens the claims name
TlsTokens ==
    { <<"e", "s", "m", "t", "p", "s">>, <<"e", "s", "m", "t", "p", "s", "a">>,
      <<"s", "m", "t", "p", "s">>, <<"w", "i", "t", "h", " ", "t", "l", "s">>,
      <<"s", "t", "a", "r", "t", "t", "l", "s">>, <<"t", "l", "s">>,
      <<"s", "s", "l">>, <<"e", "n", "c", "r", "y", "p", "t", "e", "d">> }

HasTlsToken(s) == \E w \in TlsTokens : ContainsIgnoreCase(s, w)

PlainProtocols ==
    { <<"s", "m", "t", "p">>, <<"e", "s", "m", "t", "p">>, <<"l", "m", "t", "p">> }

KeywordWith == <<"w", "i", "t", "h">>

\* the word `with`, then whitespace only, then a whole word that is w
WithThenWord(s, w) ==
    \E p \in 1..Len(s) : \E q \in (p + 5)..Len(s) :
        /\ WordAt(s, p, KeywordWith)
        /\ \A k \in (p + 4)..(q - 1) : s[k] \in Whitespace
        /\ WordAt(s, q, w)

\* the word `with` is followed by whitespace and a plaintext protocol token
HasPlaintextKeyword(s) == \E w \in PlainProtocols : WithThenWord(s, w)

\* the word `with` is followed by whitespace and a word character
HasWithToken(s) ==
    \E p \in 1..Len(s) : \E q \in (p + 5)..Len(s) :
        /\ WordAt(s, p, KeywordWith)
        /\ \A k \in (p + 4)..(q - 1) : s[k] \in Whitespace
        /\ s[q] \in WordChar

\* C5: a header that contains one of the eight TLS tokens, in any case, has
\* tls true, whether or not a plaintext keyword occurs in it as well.
C5_TlsTokenWins ==
    IsSome(hop) => (HasTlsToken(header) => The(hop).tls = Some(TRUE))

\* a header with a plaintext keyword and a TLS token, parsed
C5_Witness ==
    /\ IsSome(hop) /\ HasTlsToken(header) /\ HasPlaintextKeyword(header)
    /\ The(hop).tls = Some(TRUE)

\* C6: in a header without TLS token, tls is false exactly when the word
\* `with` is followed by the protocol token smtp, esmtp or lmtp, and unknown
\* otherwise: any other token after `with` never yields false.
C6_PlaintextOnlyForKnownProtocol ==
    (IsSome(hop) /\ ~HasTlsToken(header)) =>
        /\ The(hop).tls = Some(FALSE) <=> HasPlaintextKeyword(header)
        /\ ~HasPlaintextKeyword(header) => The(hop).tls = None

\* `with` followed by a token that is none of the three: unknown
C6_Witness ==
    /\ IsSome(hop) /\ ~HasTlsToken(header)
    /\ HasWithToken(header) /\ ~HasPlaintextKeyword(header)
    /\ ContainsIgnoreCase(header, <<"s", "m", "t", "p">>)
    /\ The(hop).tls = None

\* C7 (as claimed): a header without the keyword `with` has tls unknown and
\* with_proto absent.
C7_NoWithMeansUnknown ==
    (IsSome(hop) /\ ~HasWord(header, KeywordWith)) =>
        /\ The(hop).tls = None
        /\ The(hop).with_proto = None

\* C7 (amended): a header without the keyword `with` and without TLS token
\* has tls unknown and with_proto absent.
C7_NoWithNoTokenMeansUnknown ==
    (IsSome(hop) /\ ~HasWord(header, KeywordWith) /\ ~HasTlsToken(header)) =>
        /\ The(hop).tls = None
        /\ The(hop).with_proto = None

\* a protocol name without `with` before it, parsed
C7_Witness ==
    /\ IsSome(hop) /\ ~HasWord(header, KeywordWith) /\ ~HasTlsToken(header)
    /\ HasWord(header, <<"s", "m", "t", "p">>)
    /\ The(hop).tls = None /\ The(hop).with_proto = None

(***************************************************************************)
(* Address extraction (specification SpecIp)                               *)
(***************************************************************************)
MaxIpPieces == 3

\* 1.2.3.4, 9, 25, a dot, a space, a::b, a colon: dotted quads alone, run
\* together, out of range, and beside or inside IPv6 literals
IpPieces ==
    { <<"1", ".", "2", ".", "3", ".", "4">>,
      <<"9">>,
      <<"2", "5">>,
      <<".">>,
      <<" ">>,
      <<"a", ":", ":", "b">>,
      <<":">> }

InitIp == header \in Texts(IpPieces, MaxIpPieces) /\ hop = None /\ ParserIdle

SpecIp == InitIp /\ [][ParseHeader]_vars

InRun(c) == c \in Digit \cup {"."}

\* [a, b] is a maximal run of digits and dots of s
IsRun(s, a, b) ==
    /\ 1 <= a /\ a <= b /\ b <= Len(s)
    /\ \A k \in a..b : InRun(s[k])
    /\ (a = 1 \/ ~InRun(s[a - 1]))
    /\ (b = Len(s) \/ ~InRun(s[b + 1]))

\* an octet as the pattern spells it: 0-9, 00-99, 100-199, 200-249, 250-255
IsOctet(w) ==
    /\ Len(w) \in 1..3
    /\ \A k \in 1..Len(w) : w[k] \in Digit
    /\ Len(w) = 3 =>
          \/ w[1] = "1"
          \/ w[1] = "2" /\ w[2] \in {"0", "1", "2", "3", "4"}
          \/ w[1] = "2" /\ w[2] = "5" /\ w[3] \in {"0", "1", "2", "3", "4", "5"}

\* w is four octets separated by dots
IsDottedQuad(w) ==
    \E i, j, k \in 2..(Len(w) - 1) :
        /\ i < j /\ j < k
        /\ w[i] = "." /\ w[j] = "." /\ w[k] = "."
        /\ IsOctet(SubSeq(w, 1, i - 1)) /\ IsOctet(SubSeq(w, i + 1, j - 1))
        /\ IsOctet(SubSeq(w, j + 1, k - 1)) /\ IsOctet(SubSeq(w, k + 1, Len(w)))

\* where the IPv4 literals of s start: the maximal runs that are dotted quads
QuadStarts(s) ==
    {a \in 1..Len(s) : \E b \in a..Len(s) :
        IsRun(s, a, b) /\ IsDottedQuad(SubSeq(s, a, b))}

RunEnd(s, a) == CHOOSE b \in a..Len(s) : IsRun(s, a, b)

RECURSIVE QuadsFrom(_, _)
\* the IPv4 literals of s at or after position a, in order of appearance
QuadsFrom(s, a) ==
    IF a > Len(s) THEN <<>>
    ELSE IF a \in QuadStarts(s)
         THEN <<SubSeq(s, a, RunEnd(s, a))>> \o QuadsFrom(s, RunEnd(s, a) + 1)
         ELSE QuadsFrom(s, a + 1)

HasColon(w) == \E k \in 1..Len(w) : w[k] = ":"

\* C8: a header with at least one IPv4 literal has as ips exactly its IPv4
\* literals in order of appearance, none of them an IPv6 literal, also when
\* IPv6 literals are present; IPv6 literals are returned only when the
\* header has no IPv4 literal.
C8_IPv4BeforeIPv6 ==
    IsSome(hop) =>
        LET quads == QuadsFrom(header, 1)
            ips == The(hop).ips
        IN  /\ quads # <<>> =>
                  /\ ips = quads
                  /\ \A k \in 1..Len(ips) : ~HasColon(ips[k])
            /\ (\E k \in 1..Len(ips) : HasColon(ips[k])) => quads = <<>>

\* an IPv6 literal before an IPv4 literal: only the latter is returned
C8_Witness ==
    /\ IsSome(hop)
    /\ \E p \in 1..Len(header) :
          /\ SpelledAt(header, p, <<"a", ":", ":", "b">>)
          /\ \E a \in QuadStarts(header) : a > p + 4
    /\ Len(The(hop).ips) = 1 /\ ~HasColon(The(hop).ips[1])

(***************************************************************************)
(* Clause extraction (specification SpecClause)                            *)
(***************************************************************************)
MaxClausePieces == 3

\* the five keywords with a space after them, the text a with and without a
\* space after it, a semicolon, and form, a word that begins like a keyword
ClausePieces ==
    { <<"f", "r", "o", "m", " ">>,
      <<"b", "y", " ">>,
      <<"w", "i", "t", "h", " ">>,
      <<"i", "d", " ">>,
      <<"f", "o", "r", " ">>,
      <<"a", " ">>,
      <<"a">>,
      <<";">>,
      <<"f", "o", "r", "m", " ">> }

InitClause == header \in Texts(ClausePieces, MaxClausePieces) /\ hop = None /\ ParserIdle

SpecClause == InitClause /\ [][ParseHeader]_vars

KeywordFrom == <<"f", "r", "o", "m">>
KeywordBy == <<"b", "y">>
KeywordId == <<"i", "d">>
KeywordFor == <<"f", "o", "r">>

Keywords == {KeywordFrom, KeywordBy, KeywordWith, KeywordId, KeywordFor}

\* the terminators of each clause, ';' apart
TerminatorsOf(kw) ==
    CASE kw = KeywordFrom -> {KeywordBy, KeywordWith, KeywordId, KeywordFor}
      [] kw = KeywordBy -> {KeywordWith, KeywordId, KeywordFor}
      [] kw = KeywordWith -> {KeywordId, KeywordFor}
      [] OTHER -> {}

\* the field of the hop that the clause of keyword kw fills
FieldOf(h, kw) ==
    CASE kw = KeywordFrom -> h.from_host
      [] kw = KeywordBy -> h.by_host
      [] kw = KeywordWith -> h.with_proto
      [] kw = KeywordFor -> h.for_addr
      [] kw = KeywordId -> h.id

Min(S) == CHOOSE x \in S : \A y \in S : x <= y

\* where the whole word kw stands in s
KeywordAt(s, kw) == {p \in 1..Len(s) : WordAt(s, p, kw)}

\* a terminator stands at q: a ';' or a whole word of ws
TerminatorAt(s, q, ws) == s[q] = ";" \/ \E w \in ws : WordAt(s, q, w)

\* the terminators of ws in s at or after position a
TerminatorsFrom(s, a, ws) == {q \in a..Len(s) : TerminatorAt(s, q, ws)}

\* text s, without spaces at its ends
Trimmed(s) ==
    LET inside == {k \in 1..Len(s) : s[k] \notin Whitespace}
    IN  IF inside = {} THEN <<>>
        ELSE SubSeq(s, Min(inside), CHOOSE x \in inside : \A y \in inside : y <= x)

\* the clause of kw in s is followed by text and then by a terminator
HasTerminatedClause(s, kw) ==
    /\ KeywordAt(s, kw) # {}
    /\ LET a == Min(KeywordAt(s, kw)) + Len(kw)
           ts == TerminatorsFrom(s, a, TerminatorsOf(kw))
       IN  ts # {} /\ Trimmed(SubSeq(s, a, Min(ts) - 1)) # <<>>

\* the text between the keyword and the next terminator
TerminatedClauseText(s, kw) ==
    LET a == Min(KeywordAt(s, kw)) + Len(kw)
    IN  Trimmed(SubSeq(s, a, Min(TerminatorsFrom(s, a, TerminatorsOf(kw))) - 1))

\* what the claim says of hop h, parsed from the header that normalizes to s
ClauseUpToNextTerminator(s, h) ==
    \A kw \in {KeywordFrom, KeywordBy, KeywordWith} :
        HasTerminatedClause(s, kw) =>
            FieldOf(h, kw) = Some(TerminatedClauseText(s, kw))

\* C9 (as claimed): when `from` (by, with) is followed by text and then by
\* one of its terminators, a whole keyword or a ';' with or without a space
\* before it, from_host (by_host, with_proto) is the trimmed text between the
\* keyword and the next terminator.
C9_ClauseUpToNextTerminator ==
    IsSome(hop) => ClauseUpToNextTerminator(Normalize(header), The(hop))

\* the clause of kw is the last thing in s: text follows the keyword, with no
\* keyword and no ';' in it
HasLastClause(s, kw) ==
    /\ KeywordAt(s, kw) # {}
    /\ LET a == Min(KeywordAt(s, kw)) + Len(kw)
       IN  /\ TerminatorsFrom(s, a, Keywords) = {}
           /\ Trimmed(SubSeq(s, a, Len(s))) # <<>>

LastClauseText(s, kw) ==
    Trimmed(SubSeq(s, Min(KeywordAt(s, kw)) + Len(kw), Len(s)))

StopsAfter(s, a, kw) ==
    \E q \in a..(Len(s) - 1) :
        /\ s[q] \in Whitespace
        /\ s[q + 1] = ";" \/ \E w \in TerminatorsOf(kw) : SpelledAt(s, q + 1, w)

WithoutClause(s, kw) ==
    LET p == Min(KeywordAt(s, kw))
        ts == TerminatorsFrom(s, p + Len(kw), Keywords)
        e == IF ts = {} THEN Len(s) + 1 ELSE Min(ts)
    IN  SubSeq(s, 1, p - 1) \o SubSeq(s, e, Len(s))

\* what the claim says of hop h, parsed from header s, and of the hop parsed
\* from s with the clause of kw removed
RemovalKeepsOthers(s, h, kw) ==
    LET removed == _parse_received_single(WithoutClause(s, kw), 0)
    IN  /\ FieldOf(removed, kw) = None
        /\ \A other \in Keywords \ {kw} :
               IsSome(FieldOf(h, other)) => IsSome(FieldOf(removed, other))

\* every keyword of s stands once at most and has text of its own after
\* it, before the next keyword or ';'
HasWholeClauses(s) ==
    \A kw \in Keywords :
        /\ Cardinality(KeywordAt(s, kw)) <= 1
        /\ \A p \in KeywordAt(s, kw) :
               LET a == p + Len(kw)
                   ts == TerminatorsFrom(s, a, Keywords)
                   e == IF ts = {} THEN Len(s) + 1 ELSE Min(ts)
               IN  Trimmed(SubSeq(s, a, e - 1)) # <<>>

(* Specification SpecHop: headers made of whole clauses *)
MaxHopPieces == 3

\* each clause with its text, with and without a space after it, and ';'
HopPieces ==
    { <<"f", "r", "o", "m", " ", "a", " ">>,
      <<"b", "y", " ", "b", " ">>,
      <<"w", "i", "t", "h", " ", "c", " ">>,
      <<"i", "d", " ", "d", " ">>,
      <<"f", "o", "r", " ", "e", " ">>,
      <<"f", "r", "o", "m", " ", "a">>,
      <<"b", "y", " ", "b">>,
      <<"w", "i", "t", "h", " ", "c">>,
      <<";">> }

\* the header of the scenario of the specification
ScenarioHeader ==
    << "f", "r", "o", "m", " ", "m", "a", "i", "l", ".", "e", "x", "a", "m",
       "p", "l", "e", ".", "c", "o", "m", " ", "(", "m", "a", "i", "l", ".",
       "e", "x", "a", "m", "p", "l", "e", ".", "c", "o", "m", " ", "[", "2",
       "0", "3", ".", "0", ".", "1", "1", "3", ".", "5", "]", ")", " ", "b",
       "y", " ", "m", "x", ".", "r", "e", "c", "e", "i", "v", "e", "r", ".",
       "n", "e", "t", " ", "w", "i", "t", "h", " ", "E", "S", "M", "T", "P",
       "S", " ", "i", "d", " ", "A", "B", "C", "1", "2", "3", " ", "f", "o",
       "r", " ", "<", "u", "s", "e", "r", "@", "d", "e", "s", "t", ".", "c",
       "o", "m", ">", ";", " ", "M", "o", "n", ",", " ", "1", " ", "J", "a",
       "n", " ", "2", "0", "2", "4", " ", "1", "0", ":", "0", "0", ":", "0",
       "0", " ", "+", "0", "0", "0", "0" >>

InitHop ==
    /\ header \in Texts(HopPieces, MaxHopPieces) \cup {ScenarioHeader}
    /\ hop = None
    /\ ParserIdle

SpecHop == InitHop /\ [][ParseHeader]_vars

KeywordStarts(s, p, kw) ==
    /\ SpelledAt(s, p, kw)
    /\ (p = 1 \/ s[p - 1] \notin WordChar)
    /\ p + Len(kw) <= Len(s) /\ s[p + Len(kw)] \in Whitespace

\* the clause of kw can be found in s by its own search: the keyword, then
\* from, by, with: a character of text, and later whitespace with ';' or
\*                 the letters of a terminator after it;
\* id:             a character that is no whitespace;
\* for:            a character of text
Findable(s, kw) ==
    \E p \in 1..Len(s) :
        /\ KeywordStarts(s, p, kw)
        /\ CASE kw = KeywordId ->
                  \E r \in (p + 3)..Len(s) :
                      /\ s[r] \notin Whitespace
                      /\ \A k \in (p + 2)..(r - 1) : s[k] \in Whitespace
             [] kw = KeywordFor -> p + 4 <= Len(s)
             [] OTHER -> StopsAfter(s, p + Len(kw) + 2, kw)

MaxDatePieces == 3

FullDate ==
    << "M", "o", "n", ",", " ", "1", " ", "J", "a", "n", " ", "2", "0", "2", "4", " ",
       "1", "0", ":", "0", "0", ":", "0", "0", " ", "+", "0", "0", "0", "0" >>

\* a word that is no date, ';', a space, and dates of the four kinds
DatePieces ==
    { <<"x">>, <<";">>, <<" ">>,
      <<"1", " ", "J", "a", "n">>,
      <<"2", " ", "F", "e", "b", " ", "2", "0", "2", "3">>,
      <<"1", "0", ":", "0", "0", ":", "0", "0">>,
      FullDate }

InitDate == header \in Texts(DatePieces, MaxDatePieces) /\ hop = None /\ ParserIdle

SpecDate == InitDate /\ [][ParseHeader]_vars

Semicolons(s) == {k \in 1..Len(s) : s[k] = ";"}

\* the text after the last ';' of s, trimmed
AfterLastSemicolon(s) ==
    LET last == CHOOSE k \in Semicolons(s) : \A j \in Semicolons(s) : j <= k
    IN  Trimmed(SubSeq(s, last + 1, Len(s)))

\* C12: a header without ';' has no timestamp; a header with ';' has the
\* date that the trimmed text after its last ';' spells, and no timestamp
\* when that text is no date; the hop is returned in every case.
C12_TimestampAfterLastSemicolon ==
    IsSome(hop) =>
        IF Semicolons(header) = {}
        THEN The(hop).timestamp = None
        ELSE LET parsed == dtparser_parse(AfterLastSemicolon(header))
             IN  IF parsed.raised
                 THEN The(hop).timestamp = None
                 ELSE The(hop).timestamp = Some(parsed.value)

\* two semicolons, and the date after the last one is the timestamp
C12_Witness ==
    /\ IsSome(hop)
    /\ Cardinality(Semicolons(header)) = 2
    /\ IsSome(The(hop).timestamp)
    /\ The(The(hop).timestamp).year = 2023

(***************************************************************************)
(* The scenario header                                                     *)
(***************************************************************************)
\* C13: the hop of the scenario header has from_host "mail.example.com
\* (mail.example.com [203.0.113.5])", by_host "mx.receiver.net", with_proto
\* "ESMTPS", id "ABC123", for_addr "<user@dest.com>", ips ["203.0.113.5"]
\* and tls true.
C13_ScenarioHop ==
    (IsSome(hop) /\ header = ScenarioHeader) =>
        /\ The(hop).from_host = Some(
            << "m", "a", "i", "l", ".", "e", "x", "a", "m", "p", "l", "e", ".", "c",
               "o", "m", " ", "(", "m", "a", "i", "l", ".", "e", "x", "a", "m", "p",
               "l", "e", ".", "c", "o", "m", " ", "[", "2", "0", "3", ".", "0", ".",
               "1", "1", "3", ".", "5", "]", ")" >>)
        /\ The(hop).by_host = Some(
            << "m", "x", ".", "r", "e", "c", "e", "i", "v", "e", "r", ".", "n", "e",
               "t" >>)
        /\ The(hop).with_proto = Some(<<"E", "S", "M", "T", "P", "S">>)
        /\ The(hop).id = Some(<<"A", "B", "C", "1", "2", "3">>)
        /\ The(hop).for_addr = Some(
            << "<", "u", "s", "e", "r", "@", "d", "e", "s", "t", ".", "c", "o", "m",
               ">" >>)
        /\ The(hop).ips = <<
            << "2", "0", "3", ".", "0", ".", "1", "1", "3", ".", "5" >> >>
        /\ The(hop).tls = Some(TRUE)

\* the scenario header has been parsed
C13_Witness ==
    /\ IsSome(hop)
    /\ header = ScenarioHeader
    /\ The(hop).raw = ScenarioHeader

(***************************************************************************)
(* Authentication results (specifications SpecAuth and SpecVerdict)        *)
(***************************************************************************)
\* parsed = parse_authentication_results(message)
ParseAuthenticationResults ==
    /\ pc = "idle"
    /\ auth = None
    /\ auth' = Some(parse_authentication_results(message))
    /\ UNCHANGED <<header, hop, message, pc, hops, cursor, lookups, responses, outcomes,
                   report, today, files, eml_path, args, env, cli, status, errors, calls,
                   fetch, second, json_out>>

\* the variables of the other parts while only the verdicts are parsed
AuthIdle ==
    /\ header = <<>> /\ hop = None
    /\ pc = "idle" /\ hops = <<>> /\ cursor = 0
    /\ lookups = <<>> /\ responses = <<>> /\ outcomes = <<>> /\ report = None
    /\ auth = None /\ files = {} /\ eml_path = ""
    /\ today = NewYearsEve
    /\ CliIdle /\ NoCalls /\ NoFetch /\ NoSecond

MaxAuthHeaders == 3

AuthLines ==
    { [name |-> "Authentication-Results",
       value |-> <<"s", "p", "f", "=", "p", "a", "s", "s">>],
      [name |-> "Authentication-Results",
       value |-> <<"d", "k", "i", "m", "=", "f", "a", "i", "l">>],
      [name |-> "Authentication-Results",
       value |-> <<"s", "p", "f", "=", "f", "a", "i", "l", " ",
                   "d", "m", "a", "r", "c", "=", "n", "o", "n", "e">>],
      [name |-> "Authentication-Results", value |-> <<"x">>],
      [name |-> "Subject", value |-> <<"h", "i">>],
      [name |-> "Received-SPF", value |-> <<"p", "a", "s", "s">>] }

AuthMessages == UNION { [1..n -> AuthLines] : n \in 0..MaxAuthHeaders }

InitAuth == message \in AuthMessages /\ AuthIdle

SpecAuth == InitAuth /\ [][ParseAuthenticationResults]_vars

NamedPositions(msg, name) == {k \in 1..Len(msg) : msg[k].name = name}

\* the value of the j-th header called name, counting from 1 in header order
NthNamed(msg, name, j) ==
    msg[CHOOSE k \in NamedPositions(msg, name) :
            Cardinality({m \in NamedPositions(msg, name) : m <= k}) = j].value

\* C14: a message with n >= 0 Authentication-Results headers yields exactly
\* n verdicts; verdict k is that of the k-th header in header order and of
\* no other header; n = 0 yields the empty list.
C14_OneVerdictPerHeaderInOrder ==
    IsSome(auth) =>
        LET n == Cardinality(NamedPositions(message, "Authentication-Results"))
            parsed == The(auth).parsed
        IN  /\ Len(parsed) = n
            /\ Len(The(auth).raw) = n
            /\ \A k \in 1..n :
                  LET value == NthNamed(message, "Authentication-Results", k) IN
                  /\ The(auth).raw[k] = value
                  /\ parsed[k] = _parse_single_authentication_header(value)

\* two headers with different verdicts around another header: the verdicts
\* come in header order, each with the fields of its own header only
C14_Witness ==
    /\ IsSome(auth)
    /\ Len(message) = 3
    /\ message[1].value = <<"s", "p", "f", "=", "p", "a", "s", "s">>
    /\ message[2].name = "Subject"
    /\ message[3].value = <<"d", "k", "i", "m", "=", "f", "a", "i", "l">>
    /\ The(auth).parsed =
           << [spf |-> Some(<<"p", "a", "s", "s">>), dkim |-> None, dmarc |-> None],
              [spf |-> None, dkim |-> Some(<<"f", "a", "i", "l">>), dmarc |-> None] >>

\* the Authentication-Results header of the scenario of the specification
AuthScenario ==
    << "m", "x", ".", "g", "o", "o", "g", "l", "e", ".", "c", "o", "m", ";",
       " ", "s", "p", "f", "=", "p", "a", "s", "s", " ", "s", "m", "t", "p",
       ".", "m", "a", "i", "l", "f", "r", "o", "m", "=", "x", "@", "y", ".",
       "c", "o", "m", ";", " ", "d", "k", "i", "m", "=", "f", "a", "i", "l",
       " ", "h", "e", "a", "d", "e", "r", ".", "i", "=", "@", "y", ".", "c",
       "o", "m", ";", " ", "d", "m", "a", "r", "c", "=", "n", "o", "n", "e" >>

MaxVerdictPieces == 3

\* the three names, verdicts inside and outside the vocabularies, in lower
\* and in mixed case, a second spf verdict and a letter
VerdictPieces ==
    { <<"s", "p", "f", "=">>, <<"d", "k", "i", "m", "=">>, <<"d", "m", "a", "r", "c", "=">>,
      <<"p", "a", "s", "s">>, <<"F", "a", "i", "l">>,
      <<"s", "o", "f", "t", "f", "a", "i", "l">>,
      <<"b", "e", "s", "t", "g", "u", "e", "s", "s", "p", "a", "s", "s">>,
      <<"p", "e", "r", "m", "e", "r", "r", "o", "r">>,
      <<" ", "s", "p", "f", "=", "p", "a", "s", "s">>,
      <<"x">> }

InitVerdict ==
    /\ \E value \in Texts(VerdictPieces, MaxVerdictPieces) \cup {AuthScenario} :
           message = << [name |-> "Authentication-Results", value |-> value] >>
    /\ AuthIdle

SpecVerdict == InitVerdict /\ [][ParseAuthenticationResults]_vars

\* the closed vocabulary of each field
Vocabulary(name) ==
    CASE name = "spf" ->
           { <<"p", "a", "s", "s">>, <<"f", "a", "i", "l">>,
             <<"n", "e", "u", "t", "r", "a", "l">>, <<"n", "o", "n", "e">>,
             <<"s", "o", "f", "t", "f", "a", "i", "l">>,
             <<"t", "e", "m", "p", "e", "r", "r", "o", "r">> }
      [] name = "dkim" ->
           { <<"p", "a", "s", "s">>, <<"f", "a", "i", "l">>, <<"n", "o", "n", "e">>,
             <<"n", "e", "u", "t", "r", "a", "l">> }
      [] name = "dmarc" ->
           { <<"p", "a", "s", "s">>, <<"f", "a", "i", "l">>, <<"n", "o", "n", "e">>,
             <<"b", "e", "s", "t", "g", "u", "e", "s", "s", "p", "a", "s", "s">> }

\* `name=` as it is written in a header
Assignment(name) ==
    CASE name = "spf" -> <<"s", "p", "f", "=">>
      [] name = "dkim" -> <<"d", "k", "i", "m", "=">>
      [] name = "dmarc" -> <<"d", "m", "a", "r", "c", "=">>

FieldNamed(verdict, name) ==
    CASE name = "spf" -> verdict.spf
      [] name = "dkim" -> verdict.dkim
      [] name = "dmarc" -> verdict.dmarc

\* where `name=` is written in s, in any case
AssignmentsAt(s, name) == {p \in 1..Len(s) : SpelledAt(s, p, Assignment(name))}

\* the value written at a: the word characters from a on, in lower case
ValueAt(s, a) ==
    LET stops == {k \in a..Len(s) : s[k] \notin WordChar}
        e == IF stops = {} THEN Len(s) + 1 ELSE Min(stops)
    IN  Lower(SubSeq(s, a, e - 1))

\* C15: each of spf, dkim and dmarc is absent or a lowercase token of its
\* vocabulary; it is present only if the header has `name=` followed by a
\* token of the vocabulary; when every value the header gives for the name
\* is outside the vocabulary the field is absent; and the scenario header
\* yields spf pass, dkim fail, dmarc none.
C15_VerdictsFromClosedVocabulary ==
    IsSome(auth) =>
        LET s == message[1].value
            verdict == The(auth).parsed[1]
        IN  /\ \A name \in {"spf", "dkim", "dmarc"} :
                  LET field == FieldNamed(verdict, name)
                      values == {ValueAt(s, p + Len(Assignment(name))) :
                                     p \in AssignmentsAt(s, name)}
                  IN  /\ IsSome(field) => The(field) \in Vocabulary(name)
                      /\ IsSome(field) => values \cap Vocabulary(name) # {}
                      /\ values \cap Vocabulary(name) = {} => field = None
            /\ s = AuthScenario =>
                  verdict = [spf |-> Some(<<"p", "a", "s", "s">>),
                             dkim |-> Some(<<"f", "a", "i", "l">>),
                             dmarc |-> Some(<<"n", "o", "n", "e">>)]

\* the scenario header has been parsed
C15_Witness ==
    /\ IsSome(auth)
    /\ message[1].value = AuthScenario
    /\ IsSome(The(auth).parsed[1].spf)

(***************************************************************************)
(* What report assembly does to the hops (specification Spec)              *)
(***************************************************************************)
\* hop b is hop a, but for geo
SameButGeo(a, b) == [b EXCEPT !.geo = a.geo] = a

\* a step of report assembly after the hops were built: the list keeps its
\* length and its order, every hop keeps all its fields but geo, and geo
\* changes only on the hop the loop is passing, which had none
OnlyGeoChanges ==
    Parsed =>
        /\ Len(hops') = Len(hops)
        /\ cursor' \in {cursor, cursor + 1}
        /\ \A k \in 1..Len(hops) :
              /\ SameButGeo(hops[k], hops'[k])
              /\ hops'[k].geo # hops[k].geo =>
                    /\ k = cursor + 1 /\ cursor' = k
                    /\ hops[k].geo = None

\* C16: after parse_received_hops has returned, report assembly changes no
\* field of a hop but geo, the list is not reordered or resized, raw is the
\* text of the header as it was written, and geo is assigned once at most:
\* only in the step in which the loop passes the hop.
C16_OnlyGeoChangesAfterParsing ==
    /\ [][OnlyGeoChanges]_vars
    /\ [](Parsed =>
            \A i \in 0..(Len(hops) - 1) :
                hops[i + 1].raw = NthReceived(message, Len(hops) - i))

\* a finished report with a hop that got a geolocation and a hop whose raw
\* text is not its normalized text
C16_Witness ==
    /\ pc = "done"
    /\ \E k \in 1..Len(hops) : IsSome(hops[k].geo) /\ Len(hops[k].ips) = 2
    /\ \E k \in 1..Len(hops) : Normalize(hops[k].raw) # hops[k].raw


(***************************************************************************)
(* Repeated calls of the parser (specification SpecTwice)                  *)
(***************************************************************************)
MaxCalls == 2

\* headers that are parsed again and again: one with a complete date, one
\* whose date has no year, one with a time of day only, one without ';'
RepeatedHeaders ==
    { <<"b", "y", " ", "b", " ", ";", "2", " ", "F", "e", "b", " ", "2", "0", "2", "3">>,
      <<"b", "y", " ", "b", " ", ";", "1", " ", "J", "a", "n">>,
      <<";", "1", "0", ":", "0", "0", ":", "0", "0">>,
      <<"f", "r", "o", "m", " ", "a", " ", "b", "y", " ", "b", " ">> }

\* one more call _parse_received_single(raw, index); the call reads its two
\* arguments, and the day on which it runs (dtparser.parse takes the fields
\* that the text does not give from the current day)
ParseAgain ==
    /\ Len(calls) < MaxCalls
    /\ \E raw \in RepeatedHeaders, index \in 0..1 :
           calls' = Append(calls, [raw |-> raw, index |-> index,
                                   hop |-> _parse_received_single(raw, index)])
    /\ UNCHANGED <<header, hop, message, pc, hops, cursor, lookups, responses, outcomes,
                   report, today, auth, files, eml_path, args, env, cli, status, errors,
                   fetch, second, json_out>>

\* midnight passes between two calls
DayPasses ==
    /\ today = NewYearsEve
    /\ today' = NewYearsDay
    /\ UNCHANGED <<header, hop, message, pc, hops, cursor, lookups, responses, outcomes,
                   report, auth, files, eml_path, args, env, cli, status, errors, calls,
                   fetch, second, json_out>>

InitTwice ==
    /\ header = <<>> /\ hop = None /\ message = <<>> /\ pc = "idle" /\ hops = <<>>
    /\ cursor = 0 /\ lookups = <<>> /\ responses = <<>> /\ outcomes = <<>>
    /\ report = None /\ auth = None /\ files = {} /\ eml_path = ""
    /\ today = NewYearsEve
    /\ CliIdle /\ NoCalls /\ NoFetch /\ NoSecond

SpecTwice == InitTwice /\ [][ParseAgain \/ DayPasses]_vars

\* C17: two calls with the same raw header text and the same index return
\* hops that are equal field for field, whatever calls were made between
\* them and whenever they were made.
C17_SameCallSameHop ==
    \A i, j \in 1..Len(calls) :
        (calls[i].raw = calls[j].raw /\ calls[i].index = calls[j].index)
            => calls[i].hop = calls[j].hop


(***************************************************************************)
(* fetch_eml.py and cli.py: the command line (specification SpecCli)       *)
(***************************************************************************)
MaxCliHeaders == 1

\* the text given to --fetch, as urlparse sees it: whether it is empty, its
\* scheme, and whether user name, password and server are all there
Urls ==
    { [empty |-> FALSE, scheme |-> "http", credentials |-> FALSE],
      [empty |-> FALSE, scheme |-> "https", credentials |-> FALSE],
      [empty |-> FALSE, scheme |-> "imap", credentials |-> TRUE],
      [empty |-> FALSE, scheme |-> "imap", credentials |-> FALSE],
      [empty |-> FALSE, scheme |-> "ftp", credentials |-> TRUE],
      [empty |-> FALSE, scheme |-> "", credentials |-> FALSE] }

EmptyUrl == [empty |-> TRUE, scheme |-> "", credentials |-> FALSE]

FetchedPath == "/tmp/fetched.eml"

\* a different dispatch: a scheme that is not known is fetched like http
fetch_eml_any_scheme(url, remote) ==
    IF url.scheme = "imap" /\ ~url.credentials
    THEN [raised |-> TRUE, value |-> FetchedPath]
    ELSE [raised |-> remote # "ok", value |-> FetchedPath]

\* fetch_eml(url): the path of the temporary file, or an exception; `remote`
\* is what the server does ("ok": the message is delivered; "fails": the
\* request or the IMAP dialogue raises)
fetch_eml(url, remote) ==
    IF url.scheme \in {"http", "https"}
    THEN [raised |-> remote # "ok", value |-> FetchedPath]
    ELSE IF url.scheme = "imap"
         THEN IF ~url.credentials
              THEN [raised |-> TRUE, value |-> FetchedPath]
              ELSE [raised |-> remote # "ok", value |-> FetchedPath]
         ELSE [raised |-> TRUE, value |-> FetchedPath]

\* `if arguments.fetch:`
GivenFetch(a) == IsSome(a.fetch) /\ ~The(a.fetch).empty

\* `eml_path`, truthy: a path that is not None and not empty
GivenPath(path) == IsSome(path) /\ The(path) # ""

\* sys.exit(1) after LOG.error or LOG.exception
ExitWithError(text) ==
    /\ errors' = Append(errors, text)
    /\ status' = Some(1)
    /\ cli' = "exited"

\* cli.py 26-39: the path is the positional argument, or the fetched file
\* when --fetch is given; a failed fetch and a missing path end the run
CliInput ==
    /\ cli = "start"
    /\ LET fetched == fetch_eml(The(args.fetch), env.fetch)
           path == IF GivenFetch(args) THEN Some(fetched.value) ELSE args.eml
       IN  IF GivenFetch(args) /\ fetched.raised
           THEN ExitWithError("Failed to fetch EML") /\ UNCHANGED eml_path
           ELSE IF ~GivenPath(path)
                THEN ExitWithError("No EML file provided") /\ UNCHANGED eml_path
                ELSE /\ eml_path' = The(path)
                     /\ cli' = "analyzing"
                     /\ UNCHANGED <<status, errors>>
    /\ UNCHANGED <<header, hop, message, pc, hops, cursor, lookups, responses, outcomes,
                   report, today, auth, files, args, env, calls,
                   fetch, second, json_out>>

\* cli.py 43-56: the output directory is made, then generate_json_report is
\* called; os.makedirs can raise
CliOutputDir ==
    /\ cli = "analyzing"
    /\ IF env.makedirs
       THEN /\ files' = files \cup {"output_dir"}
            /\ pc' = "start"
            /\ cli' = "reporting"
            /\ UNCHANGED <<status, errors>>
       ELSE /\ ExitWithError("Failed to analyze email")
            /\ UNCHANGED <<files, pc>>
    /\ UNCHANGED <<header, hop, message, hops, cursor, lookups, responses, outcomes,
                   report, today, auth, eml_path, args, env, calls,
                   fetch, second, json_out>>

\* the states in which generate_json_report has raised
Raised == pc \in {"load_failed", "raised", "write_failed"}

\* cli.py 59-66: generate_json_report has returned; the HTML report is
\* written, which can raise, and the run ends with status 0
CliHtml ==
    /\ cli = "reporting"
    /\ pc = "done"
    /\ IF env.html
       THEN /\ files' = files \cup {"html"}
            /\ status' = Some(0)
            /\ cli' = "exited"
            /\ UNCHANGED errors
       ELSE /\ ExitWithError("Failed to analyze email")
            /\ UNCHANGED files
    /\ UNCHANGED <<header, hop, message, pc, hops, cursor, lookups, responses, outcomes,
                   report, today, auth, eml_path, args, env, calls,
                   fetch, second, json_out>>

\* a different handler: the exception is logged and the run ends with status 0
CliFailed_exit_zero ==
    /\ cli = "reporting"
    /\ Raised
    /\ errors' = Append(errors, "Failed to analyze email")
    /\ status' = Some(0)
    /\ cli' = "exited"
    /\ UNCHANGED <<header, hop, message, pc, hops, cursor, lookups, responses, outcomes,
                   report, today, auth, files, eml_path, args, env, calls,
                   fetch, second, json_out>>

\* cli.py 68-70: generate_json_report has raised
CliFailed ==
    /\ cli = "reporting"
    /\ Raised
    /\ ExitWithError("Failed to analyze email")
    /\ UNCHANGED <<header, hop, message, pc, hops, cursor, lookups, responses, outcomes,
                   report, today, auth, files, eml_path, args, env, calls,
                   fetch, second, json_out>>

cli_entrypoint == CliInput \/ CliOutputDir \/ CliHtml \/ CliFailed

CliMessages == UNION { [1..n -> HeaderLines] : n \in 0..MaxCliHeaders }

CliArgs ==
    [eml : {None, Some(""), Some("ok.eml"), Some("missing.eml")},
     fetch : {None, Some(EmptyUrl)} \cup {Some(u) : u \in Urls}]

CliEnvs == [fetch : {"ok", "fails"}, makedirs : BOOLEAN, html : BOOLEAN]

InitCli ==
    /\ header = <<>> /\ hop = None
    /\ message \in CliMessages
    /\ args \in CliArgs /\ env \in CliEnvs
    /\ cli = "start" /\ status = None /\ errors = <<>>
    /\ eml_path = ""
    /\ pc = "idle" /\ hops = <<>> /\ cursor = 0
    /\ lookups = <<>> /\ responses = <<>> /\ outcomes = <<>> /\ report = None
    /\ auth = None /\ files = {}
    /\ today = NewYearsEve
    /\ NoCalls /\ NoFetch /\ NoSecond

NextCli == cli_entrypoint \/ generate_json_report

SpecCli == InitCli /\ [][NextCli]_vars


\* --fetch is given and the fetch fails: the scheme is none of http, https
\* and imap, an imap URL lacks user name, password or server, or the server
\* does not deliver
FetchFails ==
    /\ GivenFetch(args)
    /\ \/ The(args.fetch).scheme \notin {"http", "https", "imap"}
       \/ The(args.fetch).scheme = "imap" /\ ~The(args.fetch).credentials
       \/ env.fetch = "fails"

\* no message loaded or parsed, no lookup made, no file or directory written
NothingProduced ==
    /\ pc = "idle" /\ eml_path = "" /\ hops = <<>> /\ cursor = 0
    /\ lookups = <<>> /\ auth = None /\ report = None /\ files = {}

\* the one step of a run whose fetch fails: from the start to the exit with
\* status 1, the error logged
FailedFetchStep ==
    FetchFails => /\ cli = "start" /\ cli' = "exited"
                  /\ status' = Some(1)
                  /\ errors' = <<"Failed to fetch EML">>

\* C18: in a run in which --fetch is given and the fetch fails (an unknown
\* scheme included), the only step there is ends the run with status 1, and
\* before and after it nothing is loaded, parsed, looked up or written.
C18_FailedFetchEndsRunFirst ==
    /\ [][FailedFetchStep]_vars
    /\ [](FetchFails => /\ NothingProduced
                        /\ cli \in {"start", "exited"}
                        /\ (cli = "exited" <=> status = Some(1)))

C18_Witness ==
    /\ GivenFetch(args) /\ The(args.fetch).scheme = "ftp" /\ env.fetch = "ok"
    /\ args.eml = Some("ok.eml")
    /\ cli = "exited" /\ status = Some(1)
    /\ errors = <<"Failed to fetch EML">>


\* neither a path nor --fetch
NoInput == ~GivenFetch(args) /\ ~GivenPath(args.eml)

\* the path given on the command line cannot be read
UnreadableInput == ~GivenFetch(args) /\ GivenPath(args.eml) /\ ~Readable(The(args.eml))

\* an exception has left os.makedirs, generate_json_report or
\* generate_html_report
ExceptionLeft ==
    \/ eml_path # "" /\ ~env.makedirs
    \/ Raised
    \/ pc = "done" /\ ~env.html

\* an exception was raised and caught on the way: graphviz did not render
\* the diagram, or the request of a lookup raised
ExceptionCaught ==
    \/ pc \in {"report", "done", "write_failed"} /\ "graph" \notin files
    \/ \E k \in 1..Len(responses) : responses[k].exception

\* C19 as claimed: a run without input, with an unreadable input file, or
\* with any exception raised while the report is generated, does not end
\* with status 0, and has status 1 and a logged error when it has ended.
C19_AnyExceptionEndsNonZero ==
    (NoInput \/ UnreadableInput \/ ExceptionLeft \/ ExceptionCaught)
        => /\ status # Some(0)
           /\ (cli = "exited" => status = Some(1) /\ errors # <<>>)

\* a step of a run that has failed is the step to the exit with status 1,
\* one more error logged
FailedRunStep ==
    (NoInput \/ ExceptionLeft)
        => /\ cli' = "exited" /\ status' = Some(1)
           /\ Len(errors') = Len(errors) + 1

\* C19: a run without input, with an unreadable input file, or with an
\* exception that leaves os.makedirs, generate_json_report or
\* generate_html_report, never has status 0, makes no step but the one that
\* logs the error and ends the run with status 1, and has status 1 and a
\* logged error when it has ended; a run that ends with status 0 has written
\* the directory, the JSON report and the HTML report.
C19_EscapingExceptionEndsNonZero ==
    /\ [][FailedRunStep]_vars
    /\ []((NoInput \/ UnreadableInput \/ ExceptionLeft)
            => /\ status # Some(0)
               /\ (cli = "exited" => status = Some(1) /\ errors # <<>>))
    /\ [](status = Some(0) => /\ cli = "exited" /\ pc = "done" /\ errors = <<>>
                              /\ {"output_dir", "json", "html"} \subseteq files)

C19_Witness ==
    /\ args.eml = Some("missing.eml") /\ ~GivenFetch(args)
    /\ pc = "load_failed" /\ files = {"output_dir"}
    /\ cli = "exited" /\ status = Some(1)
    /\ errors = <<"Failed to analyze email">>


(***************************************************************************)
(* Order of the lookups (specification Spec)                               *)
(***************************************************************************)
\* the number of the lookup made for the k-th hop, a hop with an address
LookupOf(hs, k) == Len(FirstAddresses(hs, k))

\* what follows the loop has begun: the verdicts, the diagram and map, the report
AfterLoop == pc \in {"render", "report", "write_failed", "done"}

\* a step makes at most one lookup, only while the loop runs, and a step
\* after the loop changes no hop
OneLookupAtATime ==
    /\ Len(lookups') <= Len(lookups) + 1
    /\ lookups' # lookups =>
           /\ pc = "geolocate" /\ auth = None /\ files = {} /\ report = None
           /\ LET k == cursor + 1 IN
              /\ lookups' = Append(lookups, hops[k].ips[1])
              /\ \A j \in 1..Len(hops) : j # k => hops'[j] = hops[j]
              /\ \A j \in k..Len(hops) : hops[j].geo = None
    /\ AfterLoop => hops' = hops

\* C20: the lookups are made one at a time in ascending hop order: the
\* lookups made so far are those of the hops the loop has reached, each
\* passed hop with an address holds the result of its own lookup, no hop
\* ahead of the loop holds a result, each step makes at most one lookup and
\* stores its result in the hop at the cursor only, and the verdicts, the
\* diagram, the map and the report exist only when every hop is passed.
C20_LookupsInHopOrderBeforeTheRest ==
    /\ [][OneLookupAtATime]_vars
    /\ [](Parsed =>
            /\ lookups = FirstAddresses(hops, Reached)
            /\ \A k \in 1..Len(hops) :
                  /\ k > cursor => hops[k].geo = None
                  /\ (k <= cursor /\ has_ips(hops[k])) =>
                        /\ lookups[LookupOf(hops, k)] = ip_address_of(hops[k])
                        /\ hops[k].geo = outcomes[LookupOf(hops, k)].value)
    /\ []((AfterLoop \/ IsSome(auth) \/ files # {} \/ IsSome(report)) =>
            /\ cursor = Len(hops)
            /\ Len(lookups) = Cardinality({k \in 1..Len(hops) : has_ips(hops[k])}))

\* a report of three hops, the second without address, the first located
\* and the third not: two lookups, each result in its own hop
C20_Witness ==
    /\ pc = "done" /\ IsSome(report) /\ IsSome(auth)
    /\ Len(hops) = 3 /\ Len(lookups) = 2
    /\ has_ips(hops[1]) /\ ~has_ips(hops[2]) /\ has_ips(hops[3])
    /\ IsSome(hops[1].geo) /\ hops[3].geo = None
    /\ lookups = <<ip_address_of(hops[1]), ip_address_of(hops[3])>>


(***************************************************************************)
(* fetch_eml.py: fetch_eml_from_url and fetch_eml_from_imap                *)
(* (specification SpecFetch)                                               *)
(***************************************************************************)
MaxContent == 2

\* the bytes a served message is made of: "a", and the two bytes that spell
\* an e with acute accent in UTF-8 (the second alone spells a copyright sign
\* in ISO-8859-1)
Bytes == {97, 195, 169}

Contents == UNION { [1..n -> Bytes] : n \in 1..MaxContent }

ReplacementCharacter == 65533

RECURSIVE DecodeUtf8(_)
\* bytes.decode('utf-8', errors='replace'), for bytes below 224: characters of
\* one and two bytes
DecodeUtf8(bs) ==
    IF bs = <<>> THEN <<>>
    ELSE IF bs[1] < 128 THEN <<bs[1]>> \o DecodeUtf8(Tail(bs))
    ELSE IF /\ bs[1] \in 194..223 /\ Len(bs) >= 2 /\ bs[2] \in 128..191
         THEN <<(bs[1] - 192) * 64 + (bs[2] - 128)>> \o DecodeUtf8(Tail(Tail(bs)))
         ELSE <<ReplacementCharacter>> \o DecodeUtf8(Tail(bs))

\* response.text: the body decoded with response.encoding, errors replaced
ResponseText(content, encoding) ==
    IF encoding = "utf-8" THEN DecodeUtf8(content)
    ELSE content                                  \* iso-8859-1: byte k is character k

\* one character in UTF-8
EncodeChar(c) ==
    IF c < 128 THEN <<c>>
    ELSE IF c < 2048 THEN <<192 + (c \div 64), 128 + (c % 64)>>
    ELSE <<224 + (c \div 4096), 128 + ((c \div 64) % 64), 128 + (c % 64)>>

RECURSIVE EncodeUtf8(_)
\* what a file opened with encoding='utf-8' holds after file.write(text)
EncodeUtf8(text) ==
    IF text = <<>> THEN <<>> ELSE EncodeChar(text[1]) \o EncodeUtf8(Tail(text))

\* tempfile.mkstemp(suffix='.eml')
TempPath == "/tmp/fetched.eml"

\* every variable but fetch
NotFetched ==
    <<header, hop, message, pc, hops, cursor, lookups, responses, outcomes, report,
      today, auth, files, eml_path, args, env, cli, status, errors, calls,
      second, json_out>>

\* what the HTTP server and the disk do in a run of fetch_eml_from_url
UrlServers ==
    [get : {"ok", "raises", "error_status"}, write : BOOLEAN,
     content : Contents, encoding : {"utf-8", "iso-8859-1"}]

\* fetch_eml.py 13-14: requests.get and raise_for_status
UrlGet ==
    /\ fetch.via = "url" /\ fetch.pc = "get"
    /\ fetch' = IF fetch.server.get = "ok"
                THEN [fetch EXCEPT !.pc = "write"]
                ELSE [fetch EXCEPT !.pc = "done",
                                   !.result = Some([raised |-> TRUE, value |-> ""])]
    /\ UNCHANGED NotFetched

\* fetch_eml.py 17-25: the temporary file is made and response.text written
\* to it as UTF-8; when the write raises, the file is removed and the
\* exception goes on
UrlWriteTemp ==
    /\ fetch.via = "url" /\ fetch.pc = "write"
    /\ fetch' = IF fetch.server.write
                THEN [fetch EXCEPT
                        !.pc = "done",
                        !.temp = Some(EncodeUtf8(ResponseText(fetch.server.content,
                                                              fetch.server.encoding))),
                        !.result = Some([raised |-> FALSE, value |-> TempPath])]
                ELSE [fetch EXCEPT !.pc = "done",
                                   !.temp = None,
                                   !.result = Some([raised |-> TRUE, value |-> ""])]
    /\ UNCHANGED NotFetched

fetch_eml_from_url == UrlGet \/ UrlWriteTemp

\* imaplib: the states of a connection in which a command may be sent
Commands(name) ==
    CASE name = "LOGIN" -> {"NONAUTH"}
      [] name = "SELECT" -> {"AUTH", "SELECTED"}
      [] name = "SEARCH" -> {"SELECTED"}
      [] name = "FETCH" -> {"SELECTED"}
      [] name = "CLOSE" -> {"SELECTED"}
      [] name = "LOGOUT" -> {"NONAUTH", "AUTH", "SELECTED", "LOGOUT"}

\* imaplib.IMAP4_SSL(server): a connection, not logged in, its socket open
NewConnection == [state |-> "NONAUTH", sent |-> <<>>, shut |-> FALSE]

\* a command may be sent in the state of the connection
Legal(conn, name) == conn.state \in Commands(name)

Sent(conn, name) == [conn EXCEPT !.sent = Append(conn.sent, name)]

\* imap_connection.login(username, password): raises unless the server says OK
imap_login(conn, reply) ==
    IF ~Legal(conn, "LOGIN") THEN [conn |-> conn, raised |-> TRUE]
    ELSE IF reply # "OK" THEN [conn |-> Sent(conn, "LOGIN"), raised |-> TRUE]
    ELSE [conn |-> [Sent(conn, "LOGIN") EXCEPT !.state = "AUTH"], raised |-> FALSE]

\* imap_connection.select(mailbox): returns the status, which
\* fetch_eml_from_imap does not read
imap_select(conn, reply) ==
    IF ~Legal(conn, "SELECT") THEN [conn |-> conn, raised |-> TRUE]
    ELSE [conn |-> [Sent(conn, "SELECT") EXCEPT
                      !.state = IF reply = "OK" THEN "SELECTED" ELSE "AUTH"],
          raised |-> FALSE]

\* imap_connection.search and imap_connection.fetch: (status, data)
imap_query(conn, name, reply) ==
    IF ~Legal(conn, name) THEN [conn |-> conn, raised |-> TRUE, status |-> ""]
    ELSE [conn |-> Sent(conn, name), raised |-> FALSE,
          status |-> IF reply = "NO" THEN "NO" ELSE "OK"]

\* imap_connection.close(): the state is AUTH afterwards in every case
imap_close(conn, reply) ==
    IF ~Legal(conn, "CLOSE")
    THEN [conn |-> [conn EXCEPT !.state = "AUTH"], raised |-> TRUE]
    ELSE [conn |-> [Sent(conn, "CLOSE") EXCEPT !.state = "AUTH"],
          raised |-> reply # "OK"]

\* imap_connection.logout(): LOGOUT is sent and the socket shut down
imap_logout(conn, reply) ==
    IF reply # "OK"
    THEN [conn |-> [Sent(conn, "LOGOUT") EXCEPT !.state = "LOGOUT"], raised |-> TRUE]
    ELSE [conn |-> [Sent(conn, "LOGOUT") EXCEPT !.state = "LOGOUT", !.shut = TRUE],
          raised |-> FALSE]

\* what the IMAP server and the disk do in a run of fetch_eml_from_imap
ImapServers ==
    [connect : BOOLEAN, login : {"OK", "NO"}, select : {"OK", "NO"},
     search : {"found", "none", "NO"}, fetch : {"OK", "NO"}, write : BOOLEAN,
     close : {"OK", "raises"}, logout : {"OK", "raises"}, content : Contents]

\* an exception leaves the try block: the finally clause runs with it pending
ToFinally(f, conn, exception) ==
    [f EXCEPT !.conn = conn, !.pending = exception, !.pc = "finally"]

\* fetch_eml.py 45-48: the connection is made, outside the try block
ImapConnect ==
    /\ fetch.via = "imap" /\ fetch.pc = "connect"
    /\ fetch' = IF fetch.server.connect
                THEN [fetch EXCEPT !.conn = NewConnection, !.made = TRUE, !.pc = "login"]
                ELSE [fetch EXCEPT !.pc = "done",
                                   !.result = Some([raised |-> TRUE, value |-> ""])]
    /\ UNCHANGED NotFetched

\* fetch_eml.py 52
ImapLogin ==
    /\ fetch.via = "imap" /\ fetch.pc = "login"
    /\ LET r == imap_login(fetch.conn, fetch.server.login) IN
       fetch' = IF r.raised THEN ToFinally(fetch, r.conn, "login")
                ELSE [fetch EXCEPT !.conn = r.conn, !.pc = "select"]
    /\ UNCHANGED NotFetched

\* fetch_eml.py 55
ImapSelect ==
    /\ fetch.via = "imap" /\ fetch.pc = "select"
    /\ LET r == imap_select(fetch.conn, fetch.server.select) IN
       fetch' = IF r.raised THEN ToFinally(fetch, r.conn, "select")
                ELSE [fetch EXCEPT !.conn = r.conn, !.pc = "search"]
    /\ UNCHANGED NotFetched

\* fetch_eml.py 58-66: ValueError when the status is not OK or nothing is found
ImapSearch ==
    /\ fetch.via = "imap" /\ fetch.pc = "search"
    /\ LET r == imap_query(fetch.conn, "SEARCH", fetch.server.search) IN
       fetch' = IF r.raised THEN ToFinally(fetch, r.conn, "search")
                ELSE IF r.status # "OK" \/ fetch.server.search = "none"
                     THEN ToFinally(fetch, r.conn, "no messages")
                     ELSE [fetch EXCEPT !.conn = r.conn, !.pc = "fetch"]
    /\ UNCHANGED NotFetched

\* fetch_eml.py 69-76: ValueError when the status is not OK
ImapFetch ==
    /\ fetch.via = "imap" /\ fetch.pc = "fetch"
    /\ LET r == imap_query(fetch.conn, "FETCH", fetch.server.fetch) IN
       fetch' = IF r.raised THEN ToFinally(fetch, r.conn, "fetch")
                ELSE IF r.status # "OK" THEN ToFinally(fetch, r.conn, "fetch failed")
                     ELSE [fetch EXCEPT !.conn = r.conn, !.pc = "write"]
    /\ UNCHANGED NotFetched

\* fetch_eml.py 79-90: the temporary file is made and the raw message
\* written to it in binary mode; when the write raises, the file is removed
\* and the exception goes on
ImapWriteTemp ==
    /\ fetch.via = "imap" /\ fetch.pc = "write"
    /\ fetch' = IF fetch.server.write
                THEN [fetch EXCEPT !.temp = Some(fetch.server.content),
                                   !.value = TempPath, !.pc = "finally"]
                ELSE [ToFinally(fetch, fetch.conn, "write") EXCEPT !.temp = None]
    /\ UNCHANGED NotFetched

\* fetch_eml.py 94-98: close() and logout() in one try block with a bare
\* except, so that logout() is not called when close() raises
Cleanup(conn, server) ==
    LET closed == imap_close(conn, server.close) IN
    IF closed.raised THEN closed.conn
    ELSE imap_logout(closed.conn, server.logout).conn

\* fetch_eml.py 92-98: the finally clause, then the return or the exception
\* that was pending
ImapFinally ==
    /\ fetch.via = "imap" /\ fetch.pc = "finally"
    /\ fetch' = [fetch EXCEPT
                   !.conn = Cleanup(fetch.conn, fetch.server),
                   !.pc = "done",
                   !.result = Some(IF fetch.pending # ""
                                   THEN [raised |-> TRUE, value |-> ""]
                                   ELSE [raised |-> FALSE, value |-> fetch.value])]
    /\ UNCHANGED NotFetched

fetch_eml_from_imap ==
    ImapConnect \/ ImapLogin \/ ImapSelect \/ ImapSearch \/ ImapFetch \/ ImapWriteTemp
    \/ ImapFinally

\* a call of fetch_eml_from_url or of fetch_eml_from_imap, no temporary
\* file yet
Fetches ==
    { [via |-> "url", pc |-> "get", server |-> s, temp |-> None, result |-> None] :
        s \in UrlServers }
    \cup
    { [via |-> "imap", pc |-> "connect", server |-> s, made |-> FALSE,
       conn |-> NewConnection, pending |-> "", value |-> "", temp |-> None,
       result |-> None] : s \in ImapServers }

InitFetch ==
    /\ fetch \in Fetches
    /\ header = <<>> /\ hop = None /\ message = <<>> /\ pc = "idle" /\ hops = <<>>
    /\ cursor = 0 /\ lookups = <<>> /\ responses = <<>> /\ outcomes = <<>>
    /\ report = None /\ auth = None /\ files = {} /\ eml_path = ""
    /\ today = NewYearsEve
    /\ CliIdle /\ NoCalls /\ NoSecond

SpecFetch == InitFetch /\ [][fetch_eml_from_url \/ fetch_eml_from_imap]_vars


\* fetch_eml_from_imap has returned or raised after the connection was made
ImapExited == fetch.via = "imap" /\ fetch.pc = "done" /\ fetch.made

\* the server answers the commands of the clean-up
ServerAnswersCleanup == fetch.server.close = "OK" /\ fetch.server.logout = "OK"

\* C21: once the connection is made, fetch_eml_from_imap ends on every path
\* with the connection logged out and its socket shut (and the mailbox
\* closed when one was selected), as far as the server answers the clean-up;
\* and whatever the clean-up raises, the function returns the path when the
\* try block ended normally and raises the exception of the try block
\* otherwise.
C21_EveryExitClosesAndLogsOut ==
    ImapExited =>
        /\ ServerAnswersCleanup =>
              /\ fetch.conn.state = "LOGOUT" /\ fetch.conn.shut
              /\ fetch.conn.sent[Len(fetch.conn.sent)] = "LOGOUT"
        /\ The(fetch.result).raised <=> fetch.pending # ""
        /\ ~The(fetch.result).raised => The(fetch.result).value = TempPath


\* C22: a call of fetch_eml_from_url or fetch_eml_from_imap that has ended
\* has either returned the path of the temporary file, which exists and
\* holds the bytes that were served, or raised with no temporary file left;
\* a failed request and an error status raise, and a failed write raises.
C22_TempFileHoldsContentOrIsGone ==
    fetch.pc = "done" =>
        /\ IF The(fetch.result).raised
           THEN fetch.temp = None
           ELSE /\ The(fetch.result).value = TempPath
                /\ fetch.temp = Some(fetch.server.content)
        /\ (fetch.via = "url" /\ fetch.server.get # "ok") => The(fetch.result).raised
        /\ (fetch.via = "url" /\ fetch.server.get = "ok" /\ ~fetch.server.write)
               => The(fetch.result).raised


(***************************************************************************)
(* report.py: build_report, run on the message generate_json_report has    *)
(* worked on (specification SpecBoth)                                      *)
(***************************************************************************)
MaxBothHeaders == 2

\* every variable but second
NotSecond ==
    <<header, hop, message, pc, hops, cursor, lookups, responses, outcomes, report,
      today, auth, files, eml_path, args, env, cli, status, errors, calls,
      fetch, json_out>>

\* generate_json_report has returned or raised
Ended == pc \in {"done", "raised", "load_failed", "write_failed"}

\* report.py 14-15: msg = load_email(eml_path); hops = parse_received_hops(msg)
BuildReportLoad ==
    /\ Ended
    /\ second.pc = "start"
    /\ LET msg == load_email(eml_path) IN
       second' = IF msg.raised
                 THEN [second EXCEPT !.pc = "load_failed"]
                 ELSE [second EXCEPT !.pc = "geolocate",
                                     !.hops = parse_received_hops(msg.value)]
    /\ UNCHANGED NotSecond

\* the network answers the n-th lookup of this run as it answered the n-th
\* lookup of the other run, when there was one
Answers(n) == IF n <= Len(responses) THEN {responses[n]} ELSE Responses

\* report.py 18-22: one iteration of `for h in hops`
BuildReportGeolocate ==
    /\ second.pc = "geolocate"
    /\ second.cursor < Len(second.hops)
    /\ LET h == second.hops[second.cursor + 1] IN
       IF ~has_ips(h)
       THEN second' = [second EXCEPT !.cursor = second.cursor + 1]
       ELSE \E response \in Answers(Len(second.lookups) + 1) :
              LET ip == ip_address_of(h)
                  geo == geolocate_ip(ip, response)
                  looked == [second EXCEPT !.lookups = Append(second.lookups, ip)]
              IN  second' = IF geo.raised
                            THEN [looked EXCEPT !.pc = "raised"]
                            ELSE [looked EXCEPT
                                    !.hops = StoreGeo(second.hops, second.cursor + 1,
                                                      geo.value),
                                    !.cursor = second.cursor + 1]
    /\ UNCHANGED NotSecond

\* report.py 30-42: the report dict; 'map' is what build_map returned
report_dict(path, msg, hs, verdicts, graph_path, map_path) ==
    [filename |-> basename(PathText(path)),
     filepath |-> path,
     subject  |-> header_get(msg, "Subject", None),
     from     |-> header_get(msg, "From", None),
     to       |-> header_get(msg, "To", None),
     date     |-> header_get(msg, "Date", None),
     hops     |-> [k \in 1..Len(hs) |-> to_dict(hs[k])],
     auth     |-> verdicts,
     additional_headers |-> extract_additional_headers(msg),
     graph    |-> graph_path,
     map      |-> map_path]

\* report.py 24-48: the verdicts and the other headers are read, diagram and
\* map are drawn with the default names, the report is built, written next
\* to the .eml file and returned; graphviz and the disk do what they did in
\* the other run
BuildReportAssemble ==
    /\ second.pc = "geolocate"
    /\ second.cursor = Len(second.hops)
    /\ LET rendered == "graph" \in files
           written == pc = "done"
           made == (IF rendered THEN {"graph"} ELSE {})
                   \cup (IF HasCoordinates(second.hops) THEN {"map"} ELSE {})
       IN  second' =
             IF written
             THEN [second EXCEPT
                     !.pc = "done",
                     !.files = made \cup {"json"},
                     !.report = Some(report_dict(
                                       eml_path, message, second.hops,
                                       parse_authentication_results(message),
                                       build_graph("hops", rendered),
                                       build_map(second.hops, "hops_map.html"))),
                     !.json_out = Some(splitext_root(PathText(eml_path))
                                       \o ReportJsonSuffix)]
             ELSE [second EXCEPT !.pc = "write_failed", !.files = made]
    /\ UNCHANGED NotSecond

build_report == BuildReportLoad \/ BuildReportGeolocate \/ BuildReportAssemble

\* headers of the messages both assemblers work on
BothLines ==
    { [name |-> "Subject", value |-> <<"h", "i">>],
      [name |-> "From", value |-> <<"a", "@", "b">>],
      [name |-> "X-Mailer", value |-> <<"m">>],
      [name |-> "Received", value |-> <<"b", "y", " ", " ", "x">>],
      [name |-> "Received", value |-> <<"[", "1", ".", "2", ".", "3", ".", "4", "]">>] }

BothMessages == UNION { [1..n -> BothLines] : n \in 0..MaxBothHeaders }

\* a call of build_report that has not begun
NewSecond ==
    [pc |-> "start", hops |-> <<>>, cursor |-> 0, lookups |-> <<>>, files |-> {},
     report |-> None, json_out |-> None]

InitBoth ==
    /\ header = <<>> /\ hop = None
    /\ message \in BothMessages
    /\ eml_path \in {"ok.eml", "missing.eml"}
    /\ pc = "start" /\ hops = <<>> /\ cursor = 0
    /\ lookups = <<>> /\ responses = <<>> /\ outcomes = <<>> /\ report = None
    /\ auth = None /\ files = {} /\ json_out = None
    /\ today = NewYearsEve
    /\ CliIdle /\ NoCalls /\ NoFetch
    /\ second = NewSecond

SpecBoth == InitBoth /\ [][generate_json_report \/ build_report]_vars

\* both assemblers have returned or raised
BothEnded ==
    Ended /\ second.pc \in {"done", "raised", "load_failed", "write_failed"}

\* the entries of a report the two assemblers have in common
Common(r) ==
    [filename |-> r.filename, filepath |-> r.filepath, subject |-> r.subject,
     from |-> r.from, to |-> r.to, date |-> r.date, hops |-> r.hops, auth |-> r.auth,
     additional_headers |-> r.additional_headers, graph |-> r.graph, map |-> r.map]

\* C23: on the same message, with the same answers of the network, graphviz
\* and the disk, build_report and generate_json_report (json_out not given)
\* make the same lookups in the same order, both return or both raise, the
\* reports they return have equal filename, filepath, subject, from, to,
\* date, hops, auth, additional_headers, graph and map entries, and both
\* write the JSON report to the same path next to the .eml file.
C23_AssemblersEquivalent ==
    BothEnded =>
        /\ second.lookups = lookups
        /\ second.pc = pc
        /\ pc = "done" =>
              /\ Common(The(second.report)) = Common(The(report))
              /\ second.json_out = json_out

=============================================================================
